---- MODULE Spec2Model ----
(***************************************************************************)
(* Model of the document ingestion pipeline of rag-ai-agent                *)
(* (src/src/ingest.py, DocumentIngestionPipeline) together with the parts  *)
(* of its collaborators that decide its control flow: the converter        *)
(* wrapper, the chunker wrapper, the batch embedding client and the store. *)
(*                                                                         *)
(* One run of ingest_document is a walk of pc through                      *)
(*   idle -> convert -> validate_doc -> create -> chunk -> batch/insert    *)
(*        -> {cleanup ->} handler -> returned.                             *)
(* Every external call is one action whose outcome (value or exception) is *)
(* chosen nondeterministically; the store (documents, vectors) may hold    *)
(* documents of earlier ingestions when the call starts.                   *)
(*                                                                         *)
(* SpecMem is the chat memory manager (src/src/memory.py) over the table   *)
(* chat_histories, SpecEmb the retry loop of the embedding client          *)
(* (src/src/embeddings.py).  Each specification moves its own variables     *)
(* and leaves those of the others at rest.                                 *)
(***************************************************************************)
EXTENDS Integers, Sequences, FiniteSets, TLC

\* ------------------------------------------------------------- bounds
MaxChunks == 4      \* most chunk candidates the chunker returns
MaxBatchSize == 3   \* largest batch_size the pipeline is constructed with
MaxPrior == 1       \* most documents in the store before the call
MaxTurns == 3       \* store_chat_turn calls in one behaviour of SpecMem
MaxLimit == 2       \* largest memory_limit of the memory manager
MaxRetries == 3     \* largest max_retries of the embedding client
MaxTexts == 2       \* longest list given to generate_embeddings in SpecEmb
MaxCandidates == 3  \* most rows the similarity search of the store returns
MaxTopK == 2        \* largest top_k given to the query processor
MaxCreated == 2     \* endpoint answers recorded per query string
MaxHistory == 6     \* longest history handed to the chat orchestrator
MaxStored == 2      \* turns process_query stores
MaxConcTurns == 3   \* store_chat_turn calls of the two concurrent callers together

VARIABLES
    pc,            \* position of the running ingest_document call
    batch_size,    \* self.batch_size
    file,          \* the file_path argument, by the properties the code can test
    documents,     \* store: ids of the rows of table "documents"
    vectors,       \* store: rows of table "vectors"
    next_id,       \* id the store gives to the next created document
    doc_record,    \* doc_record.id of the running call (0: none yet)
    total_chunks,  \* len(chunks) returned by chunk_document
    i,             \* loop variable of _process_and_store_chunks (batch start)
    stored_count,  \* stored_count of _process_and_store_chunks
    vector_chunks, \* the batch built between generate_embeddings and insert_vectors
    log,           \* calls made by the running ingest_document call, in order
    result         \* the ConversionResult returned (status "none" while running)

\* memory.py, ChatMemoryManager
VARIABLES
    chat_histories, \* store: rows of table "chat_histories"
    clock,          \* store_chat_turn calls so far: the next turn_timestamp
    memory_limit,   \* self.memory_limit
    m_pc,           \* position of the running memory manager call
    m_call,         \* the running (or last) call, its arguments and outcome
    m_sel,          \* response.data of the select of _cleanup_old_messages of the call
    m_before,       \* chat_histories when the call started
    m_prev,         \* the session the call before m_call cleared ("": none)
    m_turns,        \* per session: turns stored and confirmed since its last clear
    m_fault         \* a store call failed or was not confirmed so far

\* embeddings.py, EmbeddingGenerator
VARIABLES
    e_pc,           \* position of the running embedding call
    max_retries,    \* self.max_retries
    e_mode,         \* which method runs: single, batch or async
    e_texts,        \* its argument: the text(s), by kind
    attempt,        \* loop variable of the retry loop
    e_calls,        \* outcomes of the embeddings.create calls, in order
    e_waits,        \* arguments of the sleep calls, in order
    e_out,          \* how the call ended and what it returned
    e_sent,         \* the input of each embeddings.create call, in order
    e_vectors       \* the vectors returned to the caller, by origin and length

\* query.py, QueryProcessor
VARIABLES
    embedding_cache, \* self._embedding_cache
    q_pc,            \* position of the running query processor call
    q_call,          \* the running (or last) call, its arguments and outcome
    q_log,           \* calls of the endpoint and of the store made by q_call, in order
    q_embedded       \* per query: the vectors the endpoint returned for it so far

\* chat.py, ChatOrchestrator
VARIABLES
    c_pc,            \* position of the running process_query call
    c_call,          \* the running (or last) call, its arguments and outcome
    c_log,           \* calls of the collaborators made by c_call, in order
    c_stored,        \* the turns store_chat_turn stored, in order
    c_before         \* c_stored when the call started

\* memory.py under concurrent callers
VARIABLES
    p_pc,            \* per caller: position of its store_chat_turn
    p_call,          \* per caller: its running (or last) call
    p_sel,           \* per caller: old_ids of its cleanup
    p_tied           \* the turns whose turn_timestamp equals that of the turn before

ingest_vars == <<pc, batch_size, file, documents, vectors, next_id, doc_record,
                 total_chunks, i, stored_count, vector_chunks, log, result>>

mem_vars == <<chat_histories, clock, memory_limit, m_pc, m_call, m_sel,
              m_before, m_prev, m_turns, m_fault>>

emb_vars == <<e_pc, max_retries, e_mode, e_texts, attempt, e_calls, e_waits, e_out,
              e_sent, e_vectors>>

query_vars == <<embedding_cache, q_pc, q_call, q_log, q_embedded>>

chat_vars == <<c_pc, c_call, c_log, c_stored, c_before>>

conc_vars == <<p_pc, p_call, p_sel, p_tied>>

vars == <<ingest_vars, mem_vars, emb_vars, query_vars, chat_vars, conc_vars>>

Min(a, b) == IF a < b THEN a ELSE b

\* UUID('00000000-0000-0000-0000-000000000000'), the dummy id of a failed result
DummyId == 0

NoResult == [status |-> "none", chunks_created |-> 0, doc_id |-> DummyId]

\* ------------------------------------------------------------- inputs
\* A file_path argument: given (not None/""), and what the file system says.
Files ==
    { f \in [given : BOOLEAN, exists : BOOLEAN, oversize : BOOLEAN,
             supported : BOOLEAN, readable : BOOLEAN] :
        /\ (~f.given => ~f.exists)
        /\ (~f.exists => (~f.oversize /\ f.supported /\ f.readable)) }

\* No call yet: no file_path.
NoFile == [given |-> FALSE, exists |-> FALSE, oversize |-> FALSE,
           supported |-> TRUE, readable |-> TRUE]

\* What chunker.contextualize_chunk does for one chunk.
CtxOutcomes == {"text", "empty", "raise", "blank"}

\* What the embedding endpoint does for one batch, retries included.
ApiOutcomes == {"ok", "short", "fail"}

\* A chunk an earlier ingestion stored for document d.
PriorVector(d) ==
    [doc_id |-> d, chunk_id |-> 0, content |-> "chunk.text", embedding |-> "vec",
     batch_id |-> 1, candidate |-> 0]

\* One call of the running ingest_document, as it appears in the log.
Event(op, arg, n, ok) ==
    [op |-> op, arg |-> arg, n |-> n, ok |-> ok, items |-> <<>>]

\* A call that is given a batch: items are the candidates (positions in the
\* chunker's output) the batch holds, arg is the loop variable i.
BatchEvent(op, arg, items, ok) ==
    [op |-> op, arg |-> arg, n |-> Len(items), ok |-> ok, items |-> items]

\* ------------------------------------------------------------- ingest.py
\* ingest_document, line 79: not file_path or not os.path.exists(file_path).
\* Size, extension and readability are tested by validate_file only, which
\* ingest_document does not call.
FileGate(f) == f.given /\ f.exists

\* validate_file, lines 246-275: exists, size, extension, readable.
validate_file(f) == f.exists /\ ~f.oversize /\ f.supported /\ f.readable

\* ingest_document, lines 91-92: if not docling_doc: raise RuntimeError.
AfterConvert(out) == IF out = "doc" THEN "validate_doc" ELSE "handler"

AfterValidateAlways(valid) == "create"
\* ingest_document, lines 94-95: if not validate_document(doc): raise.
AfterValidate(valid) == IF valid THEN "create" ELSE "handler"

ChunkGateOpen(n) == TRUE
\* ingest_document, lines 106-107: if not chunks: raise RuntimeError.
ChunkGate(n) == n > 0

AfterCleanupEscapes(deleted) == IF deleted THEN "handler" ELSE "raised"
\* ingest_document, lines 129-133: a failing delete_document is logged and
\* swallowed, then the original error is re-raised into the outer handler.
AfterCleanup(deleted) == "handler"

\* chunks as chunk_document returns them: candidate k is at position k.
Candidates(n) == [k \in 1..n |-> k - 1]

BatchSliceOverlap(chunks, start, b) ==
    SubSeq(chunks, start + 1, Min(start + b + 1, Len(chunks)))
\* _process_and_store_chunks, line 169: chunks[i:i + self.batch_size].
BatchSlice(chunks, start, b) ==
    SubSeq(chunks, start + 1, Min(start + b, Len(chunks)))

\* _process_and_store_chunks, line 170: (i // self.batch_size) + 1.
BatchNum(start, b) == (start \div b) + 1

\* _process_and_store_chunks, line 171.
TotalBatches(total, b) == (total + b - 1) \div b

\* _process_and_store_chunks, lines 180-185: the contextualized text, the raw
\* chunk.text when it is empty or contextualize_chunk raised.  chunk.text is
\* never blank: chunk_document keeps validated chunks only.
ChunkText(ctx) ==
    CASE ctx = "text"  -> "contextualized"
      [] ctx = "blank" -> "blank"
      [] OTHER         -> "chunk.text"

ChunkIdInBatch(start, j) == j
\* _process_and_store_chunks, line 195: chunk_id = i + j.
ChunkId(start, j) == start + j

AfterBatchFailureBreak(start, b, total) == total
\* _process_and_store_chunks, lines 224-227 and line 168: the failed batch is
\* logged and the loop continues with the next value of range().
AfterBatchFailure(start, b, total) == start + b

CountAfterInsertAlways(count, n, inserted) == count + n
\* _process_and_store_chunks, lines 219-220: stored_count grows only after
\* insert_vectors returned.
CountAfterInsert(count, n, inserted) == IF inserted THEN count + n ELSE count

ProcessResultStrict(count, total) == IF count < total THEN "cleanup" ELSE "returned"
\* _process_and_store_chunks, lines 229-230: return stored_count, whatever it is.
ProcessResult(count, total) == "returned"

SuccessStatusNonEmpty(count) == IF count = 0 THEN "failed" ELSE "success"
\* ingest_document, lines 116-121: conversion_status="success".
SuccessStatus(count) == "success"

\* ------------------------------------------------------------- embeddings.py
\* generate_embeddings, line 128: not text or not text.strip().
IsEmptyText(t) == t = "blank"

\* generate_embeddings, lines 121-187, as the caller sees it: an exception
\* (ok = FALSE) or one vector per input text, a zero vector at the positions of
\* the empty texts.  api is what the endpoint did, retries included.
generate_embeddings(texts, api) ==
    LET non_empty_texts == SelectSeq(texts, LAMBDA t : ~IsEmptyText(t))
    IN  IF Len(texts) = 0 \/ Len(non_empty_texts) = 0 \/ api # "ok"
        THEN [ok |-> FALSE, embeddings |-> <<>>]
        ELSE [ok |-> TRUE,
              embeddings |-> [k \in 1..Len(texts) |->
                                IF IsEmptyText(texts[k]) THEN "zero" ELSE "vec"]]

\* ------------------------------------------------------------- at rest
\* The session_id values the callers use.
Sessions == {"A", "B"}

\* No memory manager call yet, and an empty table.  memory_limit is fixed by
\* the constructor (memory.py line 34) and never assigned again.
NoCall == [op |-> "none", session_id |-> "", limit |-> 0, turn |-> 0,
           response |-> 0, status |-> "none", messages |-> <<>>,
           cleanup |-> "none", user_first |-> TRUE]

\* What is kept of a call once the next one starts: the session it cleared,
\* if it was a clear_session_memory that returned.
Cleared(call) ==
    IF call.op = "clear_session_memory" /\ call.status = "returned"
    THEN call.session_id ELSE ""

MemAtRest ==
    /\ chat_histories = {}
    /\ clock = 0
    /\ m_pc = "idle"
    /\ m_call = NoCall
    /\ m_sel = <<>>
    /\ m_before = {}
    /\ m_prev = Cleared(NoCall)
    /\ m_turns = [s \in Sessions |-> {}]
    /\ m_fault = FALSE

NoOutcome == [status |-> "none", error |-> "", cause |-> "", embeddings |-> <<>>]

EmbAtRest ==
    /\ e_pc = "idle"
    /\ e_mode = "single"
    /\ e_texts = <<>>
    /\ attempt = 0
    /\ e_calls = <<>>
    /\ e_waits = <<>>
    /\ e_out = NoOutcome
    /\ e_sent = <<>>
    /\ e_vectors = <<>>

\* The query strings the callers use: one of whitespace only and a question.
Queries == {"blank", "q1"}

\* No query processor call yet.
NoQueryCall ==
    [op |-> "none", query |-> "", top_k |-> 0, threshold |-> 0, hit |-> FALSE,
     status |-> "none", error |-> "", embedding |-> 0, chunks |-> <<>>]

\* A new QueryProcessor: an empty cache (query.py line 30).
\* The callers that may run store_chat_turn at the same time.
Callers == {1, 2}

NoChatCall ==
    [op |-> "none", query |-> "", session_id |-> "", retrieved |-> <<>>,
     history |-> <<>>, path |-> "none", response |-> "", status |-> "none",
     error |-> "", chunks |-> <<>>]

ChatAtRest ==
    /\ c_pc = "idle"
    /\ c_call = NoChatCall
    /\ c_log = <<>>
    /\ c_stored = <<>>
    /\ c_before = <<>>

\* No call of a caller yet.  overlap: the turns of the store_chat_turn calls
\* of the other caller for the same session that ran while this call ran;
\* sessions: the sessions of the rows the call's select read.
NoConcCall ==
    [op |-> "none", session_id |-> "", turn |-> 0, status |-> "none",
     cleanup |-> "none", overlap |-> {}, sessions |-> {}]

ConcAtRest ==
    /\ p_pc = [p \in Callers |-> "idle"]
    /\ p_call = [p \in Callers |-> NoConcCall]
    /\ p_sel = [p \in Callers |-> {}]
    /\ p_tied = {}

QueryAtRest ==
    /\ embedding_cache = [q \in {} |-> 0]
    /\ q_pc = "idle"
    /\ q_call = NoQueryCall
    /\ q_log = <<>>
    /\ q_embedded = [q \in Queries |-> <<>>]

IngestAtRest ==
    /\ pc = "idle"
    /\ batch_size = 1
    /\ file = NoFile
    /\ documents = {}
    /\ vectors = {}
    /\ next_id = 1
    /\ doc_record = DummyId
    /\ total_chunks = 0
    /\ i = 0
    /\ stored_count = 0
    /\ vector_chunks = <<>>
    /\ log = <<>>
    /\ result = NoResult

\* ------------------------------------------------------------- state machine
Init ==
    /\ QueryAtRest
    /\ ChatAtRest
    /\ ConcAtRest
    /\ MemAtRest /\ memory_limit = 1
    /\ EmbAtRest /\ max_retries = 0
    /\ pc = "idle"
    /\ batch_size \in 1..MaxBatchSize
    /\ file = NoFile
    /\ \E prior \in 0..MaxPrior :
        /\ documents = 1..prior
        /\ vectors = {PriorVector(d) : d \in 1..prior}
        /\ next_id = prior + 1
    /\ doc_record = DummyId
    /\ total_chunks = 0
    /\ i = 0
    /\ stored_count = 0
    /\ vector_chunks = <<>>
    /\ log = <<>>
    /\ result = NoResult

\* ingest_document is called (lines 58-85): the existence test of line 79.
ingest_document ==
    /\ pc = "idle"
    /\ \E f \in Files :
        /\ file' = f
        /\ pc' = IF FileGate(f) THEN "convert" ELSE "handler"
    /\ UNCHANGED <<mem_vars, emb_vars, query_vars, chat_vars, conc_vars, batch_size, documents, vectors, next_id, doc_record,
                   total_chunks, i, stored_count, vector_chunks, log, result>>

\* Step 1, lines 89-92: converter.convert_document returns a document, returns
\* None or raises.
convert_document ==
    /\ pc = "convert"
    /\ \E out \in {"doc", "none", "raise"} :
        /\ log' = Append(log, Event("convert_document", 0, 0, out = "doc"))
        /\ pc' = AfterConvert(out)
    /\ UNCHANGED <<mem_vars, emb_vars, query_vars, chat_vars, conc_vars, batch_size, file, documents, vectors, next_id,
                   doc_record, total_chunks, i, stored_count, vector_chunks, result>>

\* Lines 94-95: converter.validate_document never raises, it answers False.
validate_document ==
    /\ pc = "validate_doc"
    /\ \E valid \in BOOLEAN :
        /\ log' = Append(log, Event("validate_document", 0, 0, valid))
        /\ pc' = AfterValidate(valid)
    /\ UNCHANGED <<mem_vars, emb_vars, query_vars, chat_vars, conc_vars, batch_size, file, documents, vectors, next_id,
                   doc_record, total_chunks, i, stored_count, vector_chunks, result>>

\* Step 2, line 99 (db.py lines 53-72): the row is created and its id kept, or
\* the store raises and no row exists.
create_document ==
    /\ pc = "create"
    /\ \E created \in BOOLEAN :
        /\ log' = Append(log, Event("create_document",
                                    IF created THEN next_id ELSE DummyId, 0, created))
        /\ documents' = IF created THEN documents \cup {next_id} ELSE documents
        /\ doc_record' = IF created THEN next_id ELSE doc_record
        /\ next_id' = IF created THEN next_id + 1 ELSE next_id
        /\ pc' = IF created THEN "chunk" ELSE "handler"
    /\ UNCHANGED <<mem_vars, emb_vars, query_vars, chat_vars, conc_vars, batch_size, file, vectors, total_chunks, i,
                   stored_count, vector_chunks, result>>

\* Step 3, lines 104-107 (docling_chunker.py lines 93-135): the chunker returns
\* n validated chunks or raises; no chunks is an error of the inner try.
chunk_document ==
    /\ pc = "chunk"
    /\ \/ \E n \in 0..MaxChunks :
            /\ log' = Append(log, Event("chunk_document", 0, n, TRUE))
            /\ total_chunks' = n
            /\ pc' = IF ChunkGate(n) THEN "batch" ELSE "cleanup"
       \/ /\ log' = Append(log, Event("chunk_document", 0, 0, FALSE))
          /\ total_chunks' = 0
          /\ pc' = "cleanup"
    /\ i' = 0
    /\ stored_count' = 0
    /\ UNCHANGED <<mem_vars, emb_vars, query_vars, chat_vars, conc_vars, batch_size, file, documents, vectors, next_id,
                   doc_record, vector_chunks, result>>

\* The batch of the running iteration, lines 176-216: its texts, and the
\* VectorChunk objects zip() builds from the chunks, texts and embeddings.
BatchTexts(ctx) == [k \in 1..Len(ctx) |-> ChunkText(ctx[k])]

BuildVectorChunks(batch_chunks, chunk_texts, embeddings) ==
    [k \in 1..Min(Len(batch_chunks), Min(Len(chunk_texts), Len(embeddings))) |->
        [doc_id    |-> doc_record,
         chunk_id  |-> ChunkId(i, k - 1),
         content   |-> chunk_texts[k],
         embedding |-> embeddings[k],
         batch_id  |-> BatchNum(i, batch_size),
         candidate |-> batch_chunks[k]]]

\* One iteration of the loop of line 168 up to generate_embeddings, lines
\* 169-216: on an embedding failure the except of line 224 skips the batch.
process_batch_embed ==
    /\ pc = "batch"
    /\ i < total_chunks
    /\ LET batch_chunks == BatchSlice(Candidates(total_chunks), i, batch_size)
       IN \E ctx \in [1..Len(batch_chunks) -> CtxOutcomes], api \in ApiOutcomes :
            LET chunk_texts == BatchTexts(ctx)
                r == generate_embeddings(chunk_texts, api)
            IN  /\ log' = Append(log, BatchEvent("generate_embeddings", i,
                                                 batch_chunks, r.ok))
                /\ IF r.ok
                   THEN /\ vector_chunks' =
                              BuildVectorChunks(batch_chunks, chunk_texts, r.embeddings)
                        /\ pc' = "insert"
                        /\ i' = i
                   ELSE /\ vector_chunks' = <<>>
                        /\ pc' = "batch"
                        /\ i' = AfterBatchFailure(i, batch_size, total_chunks)
    /\ UNCHANGED <<mem_vars, emb_vars, query_vars, chat_vars, conc_vars, batch_size, file, documents, vectors, next_id,
                   doc_record, total_chunks, stored_count, result>>

\* Lines 219-227 (db.py lines 123-143): insert_vectors stores the whole batch
\* or raises and stores nothing; either way the loop goes on.
process_batch_insert ==
    /\ pc = "insert"
    /\ \E inserted \in BOOLEAN :
        /\ log' = Append(log, BatchEvent("insert_vectors", i,
                     [k \in 1..Len(vector_chunks) |-> vector_chunks[k].candidate],
                     inserted))
        /\ vectors' = IF inserted
                      THEN vectors \cup {vector_chunks[k] : k \in 1..Len(vector_chunks)}
                      ELSE vectors
        /\ stored_count' = CountAfterInsert(stored_count, Len(vector_chunks), inserted)
        /\ i' = IF inserted THEN i + batch_size
                            ELSE AfterBatchFailure(i, batch_size, total_chunks)
    /\ vector_chunks' = <<>>
    /\ pc' = "batch"
    /\ UNCHANGED <<mem_vars, emb_vars, query_vars, chat_vars, conc_vars, batch_size, file, documents, next_id, doc_record,
                   total_chunks, result>>

\* The loop of line 168 is exhausted: _process_and_store_chunks returns
\* stored_count (line 230) and ingest_document its success result (116-124).
return_success ==
    /\ pc = "batch"
    /\ i >= total_chunks
    /\ pc' = ProcessResult(stored_count, total_chunks)
    /\ result' = IF pc' = "returned"
                 THEN [status         |-> SuccessStatus(stored_count),
                       chunks_created |-> stored_count,
                       doc_id         |-> doc_record]
                 ELSE result
    /\ UNCHANGED <<mem_vars, emb_vars, query_vars, chat_vars, conc_vars, batch_size, file, documents, vectors, next_id, doc_record,
                   total_chunks, i, stored_count, vector_chunks, log>>

\* The inner handler, lines 126-133 (db.py lines 111-120): delete_document
\* removes the record and, by cascade, its vectors, or raises; then re-raise.
cleanup ==
    /\ pc = "cleanup"
    /\ \E deleted \in BOOLEAN :
        /\ log' = Append(log, Event("delete_document", doc_record, 0, deleted))
        /\ documents' = IF deleted THEN documents \ {doc_record} ELSE documents
        /\ vectors' = IF deleted THEN {v \in vectors : v.doc_id # doc_record}
                                 ELSE vectors
        /\ pc' = AfterCleanup(deleted)
    /\ UNCHANGED <<mem_vars, emb_vars, query_vars, chat_vars, conc_vars, batch_size, file, next_id, doc_record, total_chunks, i,
                   stored_count, vector_chunks, result>>

\* The outer handler, lines 135-146: the failed result with the dummy id.
return_failed ==
    /\ pc = "handler"
    /\ result' = [status |-> "failed", chunks_created |-> 0, doc_id |-> DummyId]
    /\ pc' = "returned"
    /\ UNCHANGED <<mem_vars, emb_vars, query_vars, chat_vars, conc_vars, batch_size, file, documents, vectors, next_id, doc_record,
                   total_chunks, i, stored_count, vector_chunks, log>>

Next ==
    \/ ingest_document
    \/ convert_document
    \/ validate_document
    \/ create_document
    \/ chunk_document
    \/ process_batch_embed
    \/ process_batch_insert
    \/ return_success
    \/ cleanup
    \/ return_failed

Spec == Init /\ [][Next]_vars

\* ------------------------------------------------------------- log helpers
Ops(op) == {k \in 1..Len(log) : log[k].op = op}

Called(op) == Ops(op) # {}

Running == {"convert", "validate_doc", "create", "chunk", "batch", "insert",
            "cleanup", "handler"}

Pcs == Running \cup {"idle", "returned"}

TypeOK ==
    /\ pc \in Pcs
    /\ batch_size \in 1..MaxBatchSize
    /\ file \in Files
    /\ total_chunks \in 0..MaxChunks
    /\ stored_count \in 0..MaxChunks
    /\ result.status \in {"none", "success", "failed"}

Returned == pc = "returned"

EmbedCalls == SelectSeq(log, LAMBDA e : e.op = "generate_embeddings")

\* ceil(n / b) for n >= 0, b >= 1
CeilDiv(n, b) == CHOOSE q \in 0..n : q * b >= n /\ (q = 0 \/ (q - 1) * b < n)

\* the candidates k*b .. min((k+1)*b, n) - 1 of batch k (0-based), in order
BatchOf(k, n, b) == [j \in 1..(Min((k + 1) * b, n) - k * b) |-> k * b + j - 1]

FailedBatch(e) ==
    /\ e.op \in {"generate_embeddings", "insert_vectors"}
    /\ ~e.ok

StoredBatch(e) == e.op = "insert_vectors" /\ e.ok

\* ------------------------------------------------------------- claims

C2_SkipAndContinue ==
    /\ \A k \in 1..Len(EmbedCalls) : EmbedCalls[k].arg = (k - 1) * batch_size
    /\ \A k \in Ops("insert_vectors") :
          /\ k > 1
          /\ log[k - 1].op = "generate_embeddings"
          /\ log[k - 1].ok
          /\ log[k - 1].arg = log[k].arg
    /\ (Returned /\ total_chunks > 0) =>
          {EmbedCalls[k].arg : k \in 1..Len(EmbedCalls)}
              = {a \in 0..(total_chunks - 1) : a % batch_size = 0}

\* C2 witness: a batch failed in the embedding call, a later one in the
\* insert call, and a still later batch was attempted.
C2_Witness ==
    /\ Returned
    /\ \E a, b, c \in 1..Len(log) :
          /\ a < b /\ b < c
          /\ log[a].op = "generate_embeddings" /\ ~log[a].ok
          /\ log[b].op = "insert_vectors" /\ ~log[b].ok
          /\ log[c].op = "generate_embeddings"

\* C3: chunks_created of the returned result is the number of candidates in
\* the batches whose insert_vectors call succeeded (a batch that failed in
\* the embedding or the insert call counts 0), hence between 0 and the
\* number of candidates; it is also the number of rows stored for the document.
C3_ChunksCreated ==
    Returned =>
        /\ result.chunks_created =
              Cardinality({c \in 0..(total_chunks - 1) :
                  \E k \in Ops("insert_vectors") :
                      /\ log[k].ok
                      /\ log[k].arg <= c
                      /\ c < log[k].arg + batch_size})
        /\ result.chunks_created >= 0
        /\ result.chunks_created <= total_chunks
        /\ result.status = "success" =>
              result.chunks_created =
                  Cardinality({v \in vectors : v.doc_id = result.doc_id})

\* C3 witness: one batch failed in the embedding call, one in the insert call
\* and one was stored.
C3_Witness ==
    /\ Returned
    /\ \E a, b, c \in 1..Len(log) :
          /\ log[a].op = "generate_embeddings" /\ ~log[a].ok
          /\ log[b].op = "insert_vectors" /\ ~log[b].ok
          /\ StoredBatch(log[c])
    /\ result.chunks_created > 0
    /\ result.chunks_created < total_chunks

\* C4: batch partition: for n >= 1 candidates and batch_size b >= 1 there are
\* exactly ceil(n/b) generate_embeddings calls, the k-th (0-based) for the
\* candidates k*b .. min((k+1)*b, n)-1; every batch but the last has b
\* candidates, the last n - b*(ceil(n/b)-1), and every candidate is in exactly
\* one batch.
C4_BatchPartition ==
    LET n == total_chunks
        b == batch_size
    IN  /\ \A k \in 1..Len(EmbedCalls) :
              /\ EmbedCalls[k].items = BatchOf(k - 1, n, b)
              /\ k < CeilDiv(n, b) => EmbedCalls[k].n = b
              /\ k = CeilDiv(n, b) => EmbedCalls[k].n = n - b * (CeilDiv(n, b) - 1)
        /\ (Returned /\ n >= 1) =>
              /\ Len(EmbedCalls) = CeilDiv(n, b)
              /\ \A c \in 0..(n - 1) :
                    Cardinality({k \in 1..Len(EmbedCalls) :
                        \E j \in 1..EmbedCalls[k].n : EmbedCalls[k].items[j] = c}) = 1

\* C4 witness: several batches, the last one smaller than batch_size.
C4_Witness ==
    /\ Returned
    /\ Len(EmbedCalls) >= 2
    /\ EmbedCalls[Len(EmbedCalls)].n < batch_size
    /\ EmbedCalls[1].n = batch_size

\* C5: delete_document is never called after a batch of the document has
\* been stored; once a batch is stored the document record stays.
C5_RollbackOnlyWithoutChunks ==
    /\ \A a, b \in 1..Len(log) :
          (a < b /\ StoredBatch(log[a])) => log[b].op # "delete_document"
    /\ (\E a \in 1..Len(log) : StoredBatch(log[a])) =>
          /\ doc_record \in documents
          /\ pc # "cleanup"

\* C5 witness: the first batch was stored, a later one failed, the call
\* returned.
C5_Witness ==
    /\ Returned
    /\ \E a, b \in 1..Len(log) :
          a < b /\ StoredBatch(log[a]) /\ FailedBatch(log[b])
    /\ doc_record \in documents


\* C6: zero-candidate chunking: when chunk_document returned an empty list
\* for a document whose record was created, the call returns status "failed",
\* delete_document was called exactly once, with the id create_document
\* returned, and neither generate_embeddings nor insert_vectors was called.
C6_ZeroCandidates ==
    \A c \in Ops("chunk_document") :
        (log[c].ok /\ log[c].n = 0) =>
            /\ ~Called("generate_embeddings")
            /\ ~Called("insert_vectors")
            /\ Cardinality(Ops("delete_document")) <= 1
            /\ \A d \in Ops("delete_document") :
                  /\ d > c
                  /\ \E k \in Ops("create_document") :
                        log[k].ok /\ k < c /\ log[d].arg = log[k].arg
            /\ pc \in {"cleanup", "handler", "returned"}
            /\ pc \in {"handler", "returned"} =>
                  Cardinality(Ops("delete_document")) = 1
            /\ Returned => result.status = "failed"

\* C6 witness: the chunker returned no candidate and the call returned.
C6_Witness ==
    /\ Returned
    /\ \E c \in Ops("chunk_document") : log[c].ok /\ log[c].n = 0
    /\ Called("delete_document")

\* C7: when chunking produced at least one candidate the call returns status
\* "success" whatever the batches did, also when every batch failed: then
\* chunks_created = 0, and the document record is not deleted.
C7_SuccessWithCandidates ==
    \A c \in Ops("chunk_document") :
        (log[c].ok /\ log[c].n >= 1) =>
            /\ ~Called("delete_document")
            /\ doc_record \in documents
            /\ pc \in {"batch", "insert", "returned"}
            /\ Returned =>
                  /\ result.status = "success"
                  /\ result.doc_id = doc_record
                  /\ (\A k \in 1..Len(log) : ~StoredBatch(log[k])) =>
                        result.chunks_created = 0

\* C7 witness: every batch failed, some in the embedding call and some in the
\* insert call, and the call returned.
C7_Witness ==
    /\ Returned
    /\ \A k \in 1..Len(log) : ~StoredBatch(log[k])
    /\ \E a, b \in 1..Len(log) :
          /\ log[a].op = "generate_embeddings" /\ ~log[a].ok
          /\ log[b].op = "insert_vectors" /\ ~log[b].ok
    /\ result.status = "success"

\* C8: validation gate: for a file that does not exist, exceeds the size
\* limit, has an unsupported extension or is unreadable, ingest_document
\* fails at once: the converter is not called and no document record is
\* created.
C8_ValidationGate ==
    (pc # "idle" /\ ~validate_file(file)) =>
        /\ ~Called("convert_document")
        /\ ~Called("create_document")
        /\ Returned => result.status = "failed"

\* C9: phase order: create_document is called only after convert_document
\* returned a document that passed validate_document, chunk_document only
\* after create_document returned, generate_embeddings and insert_vectors
\* only after chunk_document returned a non-empty list; a call that fails in
\* validation or conversion leaves no document record and calls no
\* delete_document.
C9_PhaseOrder ==
    /\ \A k \in Ops("create_document") :
          \E a, b \in 1..Len(log) :
              /\ a < b /\ b < k
              /\ log[a].op = "convert_document" /\ log[a].ok
              /\ log[b].op = "validate_document" /\ log[b].ok
    /\ \A k \in Ops("chunk_document") :
          \E a \in 1..Len(log) :
              a < k /\ log[a].op = "create_document" /\ log[a].ok
    /\ \A k \in Ops("generate_embeddings") \cup Ops("insert_vectors") :
          \E a \in 1..Len(log) :
              a < k /\ log[a].op = "chunk_document" /\ log[a].ok /\ log[a].n >= 1
    /\ ( \/ (pc # "idle" /\ ~FileGate(file))
         \/ \E a \in 1..Len(log) :
              log[a].op \in {"convert_document", "validate_document"} /\ ~log[a].ok )
       => /\ ~Called("create_document")
          /\ ~Called("delete_document")
          /\ doc_record = DummyId
          /\ documents = 1..(next_id - 1)
          /\ \A v \in vectors : v = PriorVector(v.doc_id)

\* C9 witness: the converted document failed validate_document and the call
\* returned.
C9_Witness ==
    /\ Returned
    /\ \E a \in Ops("validate_document") : ~log[a].ok
    /\ result.status = "failed"

\* C10: chunk numbering: every chunk built or stored by ingestion has
\* chunk_id equal to the zero-based position of its candidate in the
\* chunker's output, so chunk_id is unique within a document and does not
\* depend on which other batches failed.
C10_ChunkNumbering ==
    /\ \A v \in vectors : v.chunk_id = v.candidate
    /\ \A k \in 1..Len(vector_chunks) :
          vector_chunks[k].chunk_id = vector_chunks[k].candidate
    /\ \A v, w \in vectors :
          (v.doc_id = w.doc_id /\ v.chunk_id = w.chunk_id) => v = w

\* C10 witness: the first batch failed and a later one is stored: the stored
\* chunks keep their positions, chunk_id 0 is a gap.
C10_Witness ==
    /\ Returned
    /\ \E a \in 1..Len(log) : FailedBatch(log[a]) /\ log[a].arg = 0
    /\ \E v \in vectors : v.doc_id = doc_record /\ v.chunk_id >= batch_size
    /\ \A v \in vectors : v.doc_id = doc_record => v.chunk_id # 0


\* C11: every chunk ingestion passes to insert_vectors has a non-empty text
\* and an embedding the endpoint computed for it; no chunk with an empty
\* (whitespace-only) text and a zero-vector embedding is built or stored.
C11_StoredChunksValid ==
    /\ \A k \in 1..Len(vector_chunks) :
          /\ ~IsEmptyText(vector_chunks[k].content)
          /\ vector_chunks[k].embedding # "zero"
    /\ \A v \in vectors :
          /\ ~IsEmptyText(v.content)
          /\ v.embedding # "zero"


\* ------------------------------------------------------------- chat memory
\* The two records store_chat_turn builds for turn t of session s: they share
\* turn_timestamp as created_at; the turn number stands for the message text.
user_record(s, t) ==
    [id |-> 2 * t - 1, session_id |-> s, role |-> "user", content |-> t,
     created_at |-> t]

ai_record(s, t) ==
    [id |-> 2 * t, session_id |-> s, role |-> "assistant", content |-> t,
     created_at |-> t]

SessionRowsAll(rows, s) == rows

\* .eq("session_id", session_id)
SessionRows(rows, s) == {r \in rows : r.session_id = s}

\* .order("created_at", desc=True): every order of the rows with created_at
\* descending; the store decides the order of rows with equal created_at.
RECURSIVE DescOrders(_)
DescOrders(S) ==
    IF S = {} THEN {<<>>}
    ELSE UNION {{<<r>> \o q : q \in DescOrders(S \ {r})} :
                   r \in {x \in S : \A y \in S : y.created_at <= x.created_at}}

\* .limit(n)
Take(q, n) == SubSeq(q, 1, Min(n, Len(q)))

\* reversed(response.data)
Reversed(q) == [k \in 1..Len(q) |-> q[Len(q) + 1 - k]]

\* What the insert of store_chat_turn can do: store both rows and return
\* them, store both and return none, store and return the first only, store
\* and return nothing, or raise.
InsertOutcomes == {"ok", "silent", "partial", "none", "raise"}

Persisted(o, s, t) ==
    IF o \in {"ok", "silent"} THEN {user_record(s, t), ai_record(s, t)}
    ELSE IF o = "partial" THEN {user_record(s, t)}
    ELSE {}

\* len(response.data) of the insert
ResponseLen(o) == IF o = "ok" THEN 2 ELSE IF o = "partial" THEN 1 ELSE 0

InsertConfirmedAny(n) == ~(n = 0)

\* memory.py line 150, negated: the insert returned both rows
InsertConfirmed(n) == ~(n = 0 \/ n # 2)

CleanupNeededLate(n) == ~(n = 0 \/ n <= (memory_limit + 1) * 2)

\* memory.py line 298, negated: the session holds more than the limit
CleanupNeeded(n) == ~(n = 0 \/ n <= memory_limit * 2)

OldMessagesTurns(q) == SubSeq(q, memory_limit + 1, Len(q))

\* memory.py lines 302-303: response.data[messages_to_keep:]
OldMessages(q) == SubSeq(q, memory_limit * 2 + 1, Len(q))

\* [msg['id'] for msg in old_messages]
OldIds(q) == {q[k].id : k \in 1..Len(q)}

ClearRowsNeq(rows, s) == {r \in rows : r.session_id = s}

\* .delete().eq("session_id", session_id)
ClearRows(rows, s) == {r \in rows : r.session_id # s}

\* models.py lines 37-49: the fields of ChatMessage and those without default
ChatMessageFields ==
    {"id", "session_id", "turn_index", "user_message", "ai_response", "created_at"}

ChatMessageRequired == {"session_id", "turn_index", "user_message", "ai_response"}

\* memory.py lines 72-79: the keyword arguments get_chat_memory passes
Kwargs(record) ==
    [id |-> record.id, session_id |-> record.session_id, role |-> record.role,
     content |-> record.content, metadata |-> "metadata",
     created_at |-> record.created_at]

\* ChatMessage(**kwargs): a validation error when a required field is missing,
\* else the declared fields that were given.
ChatMessage(kwargs) ==
    IF ChatMessageRequired \subseteq DOMAIN kwargs
    THEN [ok |-> TRUE,
          message |-> [f \in ChatMessageFields \cap DOMAIN kwargs |-> kwargs[f]]]
    ELSE [ok |-> FALSE, message |-> <<>>]

\* memory.py lines 69-83: records that fail to parse are skipped
ParseRecords(q) ==
    LET built == [k \in 1..Len(q) |-> ChatMessage(Kwargs(q[k]))]
        kept == SelectSeq(built, LAMBDA m : m.ok)
    IN  [k \in 1..Len(kept) |-> kept[k].message]

\* memory.py lines 86-87: messages[-limit:] when len(messages) > limit
Truncate(messages, limit) ==
    IF Len(messages) > limit
    THEN SubSeq(messages, Len(messages) - limit + 1, Len(messages))
    ELSE messages

\* limit=None is written 0
NoneLimit == 0

\* The limit argument of get_chat_memory (line 39): omitted, 1 or 2, which
\* fall below, at and above memory_limit.
Limits == {NoneLimit, 1, 2}

\* memory.py lines 54-55
EffectiveLimit(limit) == IF limit = NoneLimit THEN memory_limit ELSE limit


\* A call record of the memory manager; user_first is whether the records
\* get_chat_memory converts came in the order of UserFirst.
Call(op, s, limit, t, n, status, messages) ==
    [op |-> op, session_id |-> s, limit |-> limit, turn |-> t,
     response |-> n, status |-> status, messages |-> messages,
     cleanup |-> "none", user_first |-> TRUE]

AbsorbedNot(call, failure) ==
    [call EXCEPT !.status = "raised", !.cleanup = failure]

\* memory.py lines 313-314: an exception inside _cleanup_old_messages is
\* logged as a warning, and store_chat_turn goes on to return.
Absorbed(call, failure) ==
    [call EXCEPT !.status = "returned", !.cleanup = failure]

\* store_chat_turn up to the call of _cleanup_old_messages (memory.py lines
\* 120-156): one insert of both records; an exception of the insert or an
\* unconfirmed write is logged and raised to the caller.
store_chat_turn(s) ==
    /\ m_pc = "idle"
    /\ clock < MaxTurns
    /\ clock' = clock + 1
    /\ m_before' = chat_histories
    /\ m_prev' = Cleared(m_call)
    /\ m_sel' = <<>>
    /\ \E o \in InsertOutcomes :
         /\ chat_histories' = chat_histories \cup Persisted(o, s, clock + 1)
         /\ IF o # "raise" /\ InsertConfirmed(ResponseLen(o))
            THEN /\ m_pc' = "cleanup_select"
                 /\ m_call' = Call("store_chat_turn", s, 0, clock + 1,
                                   ResponseLen(o), "running", <<>>)
                 /\ m_turns' = [m_turns EXCEPT ![s] = @ \cup {clock + 1}]
                 /\ m_fault' = (m_fault \/ o # "ok")
            ELSE /\ m_pc' = "idle"
                 /\ m_call' = Call("store_chat_turn", s, 0, clock + 1,
                                   ResponseLen(o), "raised", <<>>)
                 /\ m_turns' = m_turns
                 /\ m_fault' = TRUE
    /\ UNCHANGED <<ingest_vars, emb_vars, query_vars, chat_vars, conc_vars, memory_limit>>

\* _cleanup_old_messages, the select and the test of line 298; an exception of
\* the select is caught at line 313 and store_chat_turn returns normally.
cleanup_select ==
    /\ m_pc = "cleanup_select"
    /\ \E ok \in BOOLEAN :
         IF ok
         THEN \E q \in DescOrders(SessionRows(chat_histories, m_call.session_id)) :
                /\ m_sel' = q
                /\ m_fault' = m_fault
                /\ IF CleanupNeeded(Len(q))
                   THEN /\ m_pc' = "cleanup_delete"
                        /\ m_call' = m_call
                   ELSE /\ m_pc' = "idle"
                        /\ m_call' = [m_call EXCEPT !.status = "returned",
                                                    !.cleanup = "skipped"]
         ELSE /\ m_sel' = <<>>
              /\ m_fault' = TRUE
              /\ m_pc' = "idle"
              /\ m_call' = Absorbed(m_call, "select_failed")
    /\ UNCHANGED <<ingest_vars, emb_vars, query_vars, chat_vars, conc_vars, chat_histories, clock, memory_limit,
                   m_before, m_prev, m_turns>>

\* _cleanup_old_messages, lines 301-311: the delete of the old ids; its
\* exception is caught at line 313 too.
cleanup_delete ==
    /\ m_pc = "cleanup_delete"
    /\ m_pc' = "idle"
    /\ LET old_messages == OldMessages(m_sel) IN
         IF old_messages = <<>>
         THEN /\ chat_histories' = chat_histories
              /\ m_fault' = m_fault
              /\ m_call' = [m_call EXCEPT !.status = "returned",
                                          !.cleanup = "skipped"]
         ELSE \E ok \in BOOLEAN :
                IF ok
                THEN /\ chat_histories' =
                          {r \in chat_histories : r.id \notin OldIds(old_messages)}
                     /\ m_fault' = m_fault
                     /\ m_call' = [m_call EXCEPT !.status = "returned",
                                                 !.cleanup = "deleted"]
                ELSE /\ chat_histories' = chat_histories
                     /\ m_fault' = TRUE
                     /\ m_call' = Absorbed(m_call, "delete_failed")
    /\ UNCHANGED <<ingest_vars, emb_vars, query_vars, chat_vars, conc_vars, clock, memory_limit, m_sel, m_before,
                   m_prev, m_turns>>

\* memory.py lines 60-90: what get_chat_memory returns when the select gives
\* the rows in the order q
Messages(q, limit) ==
    LET data == Take(q, limit * 2)
    IN  IF data = <<>> THEN <<>>
        ELSE Truncate(ParseRecords(Reversed(data)), limit)

\* The other row of the turn of row r.
Partner(r) ==
    IF r.role = "user" THEN ai_record(r.session_id, r.created_at)
    ELSE user_record(r.session_id, r.created_at)

\* The loop of lines 70-80 over reversed(response.data) meets the user row of
\* every turn immediately before its assistant row (for the turns both of
\* whose rows are stored).
UserFirst(records, rows) ==
    \A k \in 1..Len(records) :
        LET r == records[k] IN
        Partner(r) \in rows =>
            IF r.role = "user"
            THEN k < Len(records) /\ records[k + 1] = Partner(r)
            ELSE k > 1 /\ records[k - 1] = Partner(r)

\* get_chat_memory (memory.py lines 54-94): one select of at most limit * 2
\* rows, newest first; an exception of the select is raised to the caller.
get_chat_memory(s, limit) ==
    /\ m_pc = "idle"
    /\ m_before' = chat_histories
    /\ m_sel' = <<>>
    /\ m_prev' = Cleared(m_call)
    /\ \E ok \in BOOLEAN :
         IF ok
         THEN \E data \in {Take(q, EffectiveLimit(limit) * 2) :
                              q \in DescOrders(SessionRows(chat_histories, s))} :
                m_call' = [Call("get_chat_memory", s, EffectiveLimit(limit), 0, 0,
                                "returned", Messages(data, EffectiveLimit(limit)))
                           EXCEPT !.user_first =
                                     UserFirst(Reversed(data), chat_histories)]
         ELSE m_call' = Call("get_chat_memory", s, EffectiveLimit(limit), 0, 0,
                             "raised", <<>>)
    /\ UNCHANGED <<ingest_vars, emb_vars, query_vars, chat_vars, conc_vars, chat_histories, clock, memory_limit,
                   m_pc, m_turns, m_fault>>

\* clear_session_memory (memory.py lines 274-283): one delete; its exception
\* is raised to the caller.
clear_session_memory(s) ==
    /\ m_pc = "idle"
    /\ m_before' = chat_histories
    /\ m_sel' = <<>>
    /\ m_prev' = Cleared(m_call)
    /\ \E ok \in BOOLEAN :
         IF ok
         THEN /\ chat_histories' = ClearRows(chat_histories, s)
              /\ m_turns' = [m_turns EXCEPT ![s] = {}]
              /\ m_call' = Call("clear_session_memory", s, 0, 0, 0, "returned",
                                <<>>)
         ELSE /\ chat_histories' = chat_histories
              /\ m_turns' = m_turns
              /\ m_call' = Call("clear_session_memory", s, 0, 0, 0, "raised",
                                <<>>)
    /\ UNCHANGED <<ingest_vars, emb_vars, query_vars, chat_vars, conc_vars, clock, memory_limit, m_pc, m_fault>>

MemInit ==
    /\ IngestAtRest
    /\ QueryAtRest
    /\ ChatAtRest
    /\ ConcAtRest
    /\ EmbAtRest /\ max_retries = 0
    /\ MemAtRest /\ memory_limit \in 1..MaxLimit

MemNext ==
    \/ \E s \in Sessions : store_chat_turn(s)
    \/ cleanup_select
    \/ cleanup_delete
    \/ \E s \in Sessions : \E limit \in Limits :
          get_chat_memory(s, limit)
    \/ \E s \in Sessions : clear_session_memory(s)

SpecMem == MemInit /\ [][MemNext]_vars

MemTypeOK ==
    /\ clock \in 0..MaxTurns
    /\ memory_limit \in 1..MaxLimit
    /\ m_pc \in {"idle", "cleanup_select", "cleanup_delete"}
    /\ m_call.status \in {"none", "running", "returned", "raised"}
    /\ \A r \in chat_histories : r.session_id \in Sessions /\ r.created_at \in 1..clock
    /\ m_fault \in BOOLEAN


\* ------------------------------------------------------------- memory claims
\* store_chat_turn has returned to its caller and no other call has started.
StoreReturned ==
    /\ m_pc = "idle"
    /\ m_call.op = "store_chat_turn"
    /\ m_call.status = "returned"

\* The n most recent of the turns T.
Newest(T, n) == {t \in T : Cardinality({u \in T : u > t}) < n}

\* Both rows of every turn of T in session s.
TurnRows(s, T) == UNION {{user_record(s, t), ai_record(s, t)} : t \in T}

\* C12: when store_chat_turn returns and every insert, select and delete of
\* the store_chat_turn calls so far succeeded, the session holds at most
\* memory_limit turns (2 * memory_limit rows), and they are exactly the most
\* recently stored turns of the session.
C12_BoundedMemory ==
    (StoreReturned /\ ~m_fault) =>
        LET s == m_call.session_id
            rows == SessionRows(chat_histories, s)
        IN  /\ Cardinality(rows) <= 2 * memory_limit
            /\ rows = TurnRows(s, Newest(m_turns[s], memory_limit))

\* A store_chat_turn that returned after evicting the oldest turn of a
\* session that had grown beyond the limit, all store calls having succeeded.
C12_Witness ==
    /\ StoreReturned /\ ~m_fault
    /\ m_call.cleanup = "deleted"
    /\ Cardinality(m_turns[m_call.session_id]) > memory_limit
    /\ Cardinality(SessionRows(chat_histories, m_call.session_id)) = 2 * memory_limit


\* The rows the select of _cleanup_old_messages returned.
Selected == {m_sel[k] : k \in 1..Len(m_sel)}

\* C13: _cleanup_old_messages deletes exactly the rows of the session beyond
\* the newest 2 * memory_limit (no deleted row is newer than a kept one, and
\* 2 * memory_limit rows stay), touches no other session, and issues no delete
\* call when the session holds at most 2 * memory_limit rows.
C13_CleanupExact ==
    LET s == m_call.session_id
        kept == SessionRows(chat_histories, s)
    IN  /\ m_pc = "cleanup_delete" => Len(m_sel) > 2 * memory_limit
        /\ (StoreReturned /\ m_call.cleanup = "skipped") =>
              /\ Len(m_sel) <= 2 * memory_limit
              /\ kept = Selected
        /\ (StoreReturned /\ m_call.cleanup = "deleted") =>
              /\ Len(m_sel) > 2 * memory_limit
              /\ kept \subseteq Selected
              /\ Cardinality(kept) = 2 * memory_limit
              /\ \A d \in Selected \ kept : \A k \in kept :
                    d.created_at <= k.created_at
              /\ ClearRows(chat_histories, s) = ClearRows(m_before, s)

\* A cleanup that found more than one turn beyond the limit and deleted them.
C13_Witness ==
    /\ StoreReturned
    /\ m_call.cleanup = "deleted"
    /\ Len(m_sel) > 2 * memory_limit + 2
    /\ Cardinality(SessionRows(chat_histories, m_call.session_id)) = 2 * memory_limit


\* get_chat_memory has returned a list to its caller.
GetReturned ==
    /\ m_call.op = "get_chat_memory"
    /\ m_call.status = "returned"

\* The history item carries the user message and the assistant response of
\* turn t, under the names _build_conversation_messages reads (chat.py lines
\* 214-216).
CarriesTurn(item, t) ==
    /\ {"user_message", "ai_response"} \subseteq DOMAIN item
    /\ item.user_message = t
    /\ item.ai_response = t

\* C14: once store_chat_turn(s, u, a) has returned and both rows of the turn
\* are in the table, get_chat_memory(s) returns a non-empty history whose
\* last item carries u as user_message and a as ai_response.
C14_RoundTrip ==
    LET s == m_call.session_id
        last_turn == Newest(m_turns[s], 1)
    IN  (/\ GetReturned
         /\ last_turn # {}
         /\ TurnRows(s, last_turn) \subseteq chat_histories) =>
            /\ m_call.messages # <<>>
            /\ \A t \in last_turn :
                  CarriesTurn(m_call.messages[Len(m_call.messages)], t)

\* The turns that have a row in session s.
TurnsOf(rows, s) == {r.created_at : r \in SessionRows(rows, s)}

\* The k-th oldest of the turns T.
KthOldest(T, k) == CHOOSE t \in T : Cardinality({u \in T : u < t}) = k - 1

\* C15: get_chat_memory(session, limit) returns the most recent turns of the
\* session, at most limit of them, oldest first, and the empty list when the
\* session has no stored turn.
C15_RecentTurnsInOrder ==
    GetReturned =>
        LET s == m_call.session_id
            recent == Newest(TurnsOf(chat_histories, s), m_call.limit)
        IN  /\ Len(m_call.messages) = Cardinality(recent)
            /\ \A k \in 1..Len(m_call.messages) :
                  CarriesTurn(m_call.messages[k], KthOldest(recent, k))


\* C16: when the insert of store_chat_turn does not return both rows, the
\* call ends with an error, _cleanup_old_messages is not run (no select, no
\* delete) and every row the session had before the call is still there.
C16_UnconfirmedWriteFails ==
    (m_call.op = "store_chat_turn" /\ m_call.response # 2) =>
        /\ m_pc = "idle"
        /\ m_call.status = "raised"
        /\ m_call.cleanup = "none"
        /\ m_sel = <<>>
        /\ SessionRows(m_before, m_call.session_id) \subseteq chat_histories

\* An insert that returned one row only, for a session that already held
\* more rows than the limit allows.
C16_Witness ==
    /\ m_call.op = "store_chat_turn"
    /\ m_call.response = 1
    /\ m_call.status = "raised"
    /\ Cardinality(SessionRows(m_before, m_call.session_id)) > 2 * memory_limit


\* clear_session_memory has returned to its caller.
ClearReturned ==
    /\ m_call.op = "clear_session_memory"
    /\ m_call.status = "returned"

\* C17: after clear_session_memory returns the session has no row and the
\* rows of the other sessions are as before; a get_chat_memory that follows
\* returns the empty list; a second call, or a call on a session without
\* rows, returns too and leaves the table as it was.
C17_ClearIdempotent ==
    LET s == m_call.session_id
    IN  /\ ClearReturned =>
              /\ SessionRows(chat_histories, s) = {}
              /\ chat_histories = ClearRows(m_before, s)
              /\ ClearRows(chat_histories, s) = chat_histories
              /\ (SessionRows(m_before, s) = {} \/ m_prev = s) =>
                     chat_histories = m_before
        /\ (GetReturned /\ m_prev = s) => m_call.messages = <<>>

\* A second clear_session_memory of the same session, right after the first,
\* while the other session holds rows.
C17_Witness ==
    /\ ClearReturned
    /\ m_prev = m_call.session_id
    /\ chat_histories # {}
    /\ chat_histories = m_before


\* Every row of the session in the table belongs to a turn both rows of
\* which are in the table.
WholeTurns(rows, s) ==
    \A r \in SessionRows(rows, s) : TurnRows(s, {r.created_at}) \subseteq rows

\* C38: when the select or the delete of _cleanup_old_messages fails,
\* store_chat_turn still returns, the new turn is in the table and no row
\* that was there is lost; a store_chat_turn whose eviction runs leaves at
\* most 2 * memory_limit rows, that is at most memory_limit turns when the
\* session's rows are whole turns.
C38_EvictionFailureAbsorbed ==
    LET s == m_call.session_id
        rows == SessionRows(chat_histories, s)
    IN  /\ (m_call.op = "store_chat_turn"
            /\ m_call.cleanup \in {"select_failed", "delete_failed"}) =>
              /\ m_pc = "idle"
              /\ m_call.status = "returned"
              /\ TurnRows(s, {m_call.turn}) \subseteq chat_histories
              /\ m_before \subseteq chat_histories
        /\ (StoreReturned /\ m_call.cleanup \in {"skipped", "deleted"}) =>
              /\ Cardinality(rows) <= 2 * memory_limit
              /\ WholeTurns(chat_histories, s) =>
                    Cardinality(TurnsOf(chat_histories, s)) <= memory_limit

\* A store_chat_turn whose eviction succeeds, on a session that an earlier
\* failed eviction had left more than one turn above the limit.
C38_Witness ==
    /\ StoreReturned
    /\ m_call.cleanup = "deleted"
    /\ m_fault
    /\ Len(m_sel) > 2 * memory_limit + 2
    /\ Cardinality(TurnsOf(chat_histories, m_call.session_id)) = memory_limit


\* C37: for every stored turn, the records get_chat_memory reads and converts
\* have the user message immediately before its assistant response, and
\* eviction never removes one row of a turn while keeping the other.
C37_TurnRowsTogether ==
    /\ GetReturned => m_call.user_first
    /\ (StoreReturned /\ m_call.cleanup = "deleted") =>
          \A r \in Selected :
              Partner(r) \in Selected => (r \in chat_histories <=> Partner(r) \in chat_histories)


\* ------------------------------------------------------------- embedding client
\* Texts by what the client can tell apart: the empty string, whitespace
\* only, null characters only, an ordinary text, a text longer than 8191.
TextKinds == {"", "blank", "nul", "text", "long"}

\* embeddings.py lines 67 and 128: not text or not text.strip()
EmptyText(t) == t \in {"", "blank"}

\* _clean_text (lines 277-290) followed by the cut to 8191 characters
clean_text(t) ==
    IF t \in {"", "blank", "nul"} THEN ""
    ELSE IF t = "long" THEN "text[:8191]"
    ELSE t

\* lines 126-138: empty texts become "", the others are cleaned
cleaned_texts(texts) ==
    [k \in 1..Len(texts) |-> IF EmptyText(texts[k]) THEN "" ELSE clean_text(texts[k])]

\* line 141: [t for t in cleaned_texts if t]
non_empty_texts(texts) == SelectSeq(cleaned_texts(texts), LAMBDA t : t # "")

\* lines 159-171: the endpoint's vectors in the places of the non-empty
\* texts, a zero vector in the places of the empty ones
result_embeddings(texts) ==
    [k \in 1..Len(texts) |-> IF cleaned_texts(texts)[k] # "" THEN "vec" ELSE "zero"]

RejectedAnyEmpty(mode, texts) ==
    IF mode = "single" THEN EmptyText(texts[1])
    ELSE texts = <<>> \/ Len(non_empty_texts(texts)) # Len(texts)

\* The argument is rejected before the retry loop (lines 67-68, 122-123, 142-143)
Rejected(mode, texts) ==
    IF mode = "single" THEN EmptyText(texts[1])
    ELSE texts = <<>> \/ non_empty_texts(texts) = <<>>

\* lines 72 and 134: the model's input limit
MaxInputLength == 8191

\* len(self._clean_text(text)) of a text of each kind
CleanedLength(t) ==
    IF t \in {"", "blank", "nul"} THEN 0
    ELSE IF t = "long" THEN MaxInputLength + 1
    ELSE 4

CutLate(n) == IF n > MaxInputLength + 1 THEN MaxInputLength + 1 ELSE n

\* lines 72-74, 134-136: cleaned_text[:8191] when it is longer than 8191
Cut(n) == IF n > MaxInputLength THEN MaxInputLength ELSE n

\* One text as it is sent: what is left of it and how long that is.
SentText(t) == [text |-> clean_text(t), length |-> Cut(CleanedLength(t))]

\* The input argument of embeddings.create: the cleaned text (line 83), or
\* the texts that are not empty after cleaning, in their order (line 151).
Input(mode, texts) ==
    IF mode = "single" THEN <<SentText(texts[1])>>
    ELSE LET kept == SelectSeq(texts, LAMBDA t : ~EmptyText(t) /\ clean_text(t) # "")
         IN  [j \in 1..Len(kept) |-> SentText(kept[j])]

\* get_embedding_dimension() of the configured model (lines 300-306)
get_embedding_dimension == 1536

\* The lengths of the vectors an endpoint may answer with.
Dimensions == {get_embedding_dimension, 768}

\* A full response of the endpoint: one vector of length d for each item of
\* the request, in the order of the request.
ResponseData(n, d) == [j \in 1..n |-> [item |-> j, dim |-> d]]

\* [0.0] * len(embeddings[0])
ZeroVector(embeddings) == [item |-> 0, dim |-> embeddings[1].dim]

\* lines 159-171: the endpoint's vectors mapped back to the places of the
\* texts, non_empty_index counting the non-empty texts passed so far
map_back(cleaned, embeddings) ==
    [k \in 1..Len(cleaned) |->
        IF cleaned[k] # ""
        THEN embeddings[Cardinality({j \in 1..k : cleaned[j] # ""})]
        ELSE ZeroVector(embeddings)]

RECURSIVE Pow2(_)
Pow2(n) == IF n = 0 THEN 1 ELSE 2 * Pow2(n - 1)

RangeEndShort == max_retries

\* range(self.max_retries + 1)
RangeEnd == max_retries + 1

\* lines 94, 176, 254: attempt < self.max_retries
ShouldRetry(a) == a < max_retries

WaitTimeLinear(a) == 2 * a

\* lines 95, 177, 255: wait_time = 2 ** attempt
WaitTime(a) == Pow2(a)

\* How the call ends.
Outcome(status, error, cause, embeddings) ==
    [status |-> status, error |-> error, cause |-> cause, embeddings |-> embeddings]

\* The outer handler (lines 103-105, 185-187, 263-265) turns every exception
\* into a RuntimeError whose cause is the original one.
Wrapped(cause) == Outcome("raised", "RuntimeError", cause, <<>>)


\* The lists of length at most n over the set S.
SeqsUpTo(S, n) == UNION {[1..k -> S] : k \in 0..n}

\* The start of generate_embedding, generate_embeddings or
\* generate_embeddings_async: the checks of the argument, up to the first
\* iteration of the retry loop.
start_call(mode, texts) ==
    /\ e_pc = "idle"
    /\ e_mode' = mode
    /\ e_texts' = texts
    /\ attempt' = 0
    /\ IF Rejected(mode, texts)
       THEN /\ e_pc' = "done"
            /\ e_out' = Wrapped("ValueError")
       ELSE IF 0 < RangeEnd
       THEN /\ e_pc' = "attempt"
            /\ e_out' = e_out
       ELSE /\ e_pc' = "done"
            /\ e_out' = Wrapped("RuntimeError")
    /\ UNCHANGED <<ingest_vars, mem_vars, query_vars, chat_vars, conc_vars, max_retries, e_calls, e_waits, e_sent,
                   e_vectors>>

\* One iteration of the retry loop (lines 79-99, 148-181, 226-259): the call
\* of embeddings.create; "ok" is a response of the expected length, "short" a
\* response with missing data, "fail" an exception of the client.  A failure
\* is followed by a sleep and the next iteration, or is raised.
try_attempt ==
    /\ e_pc = "attempt"
    /\ e_sent' = Append(e_sent, Input(e_mode, e_texts))
    /\ \E o \in ApiOutcomes :
         /\ e_calls' = Append(e_calls, o)
         /\ IF o = "ok"
            THEN /\ e_pc' = "done"
                 /\ \E d \in Dimensions :
                      LET data == ResponseData(Len(Input(e_mode, e_texts)), d)
                      IN  e_vectors' =
                            IF e_mode = "single" THEN <<data[1]>>
                            ELSE map_back(cleaned_texts(e_texts), data)
                 /\ e_out' = Outcome("returned", "", "",
                                     IF e_mode = "single" THEN <<"vec">>
                                     ELSE result_embeddings(e_texts))
                 /\ UNCHANGED <<attempt, e_waits>>
            ELSE IF ShouldRetry(attempt)
            THEN /\ e_waits' = Append(e_waits, WaitTime(attempt))
                 /\ e_vectors' = e_vectors
                 /\ IF attempt + 1 < RangeEnd
                    THEN /\ e_pc' = "attempt"
                         /\ attempt' = attempt + 1
                         /\ e_out' = e_out
                    ELSE /\ e_pc' = "done"
                         /\ attempt' = attempt
                         /\ e_out' = Wrapped("RuntimeError")
            ELSE /\ e_pc' = "done"
                 /\ e_out' = Wrapped(IF o = "short" THEN "RuntimeError" ELSE "APIError")
                 /\ UNCHANGED <<attempt, e_waits, e_vectors>>
    /\ UNCHANGED <<ingest_vars, mem_vars, query_vars, chat_vars, conc_vars, max_retries, e_mode, e_texts>>

EmbInit ==
    /\ IngestAtRest
    /\ QueryAtRest
    /\ ChatAtRest
    /\ ConcAtRest
    /\ MemAtRest /\ memory_limit = 1
    /\ EmbAtRest /\ max_retries \in 0..MaxRetries

EmbNext ==
    \/ \E t \in TextKinds : start_call("single", <<t>>)
    \/ \E mode \in {"batch", "async"} : \E texts \in SeqsUpTo(TextKinds, MaxTexts) :
          start_call(mode, texts)
    \/ try_attempt

SpecEmb == EmbInit /\ [][EmbNext]_vars

EmbTypeOK ==
    /\ e_pc \in {"idle", "attempt", "done"}
    /\ max_retries \in 0..MaxRetries
    /\ attempt \in 0..max_retries
    /\ e_out.status \in {"none", "returned", "raised"}


\* ------------------------------------------------------------- embedding claims
\* Every call of the endpoint made so far failed.
AllFailed == \A k \in 1..Len(e_calls) : e_calls[k] # "ok"

\* The call has ended and its argument had passed the checks.
EndedAfterChecks == e_pc = "done" /\ ~Rejected(e_mode, e_texts)

\* C18: with max_retries = R one call of the embedding client calls the
\* endpoint at most R + 1 times; when every call fails the operation fails
\* after exactly R + 1 calls; a successful call is the last one and its
\* result is returned.
C18_RetryBound ==
    /\ Len(e_calls) <= max_retries + 1
    /\ \A k \in 1..(Len(e_calls) - 1) : e_calls[k] # "ok"
    /\ (EndedAfterChecks /\ AllFailed) =>
          /\ e_out.status = "raised"
          /\ Len(e_calls) = max_retries + 1
    /\ (EndedAfterChecks /\ ~AllFailed) =>
          /\ e_out.status = "returned"
          /\ e_calls[Len(e_calls)] = "ok"
          /\ e_out.embeddings =
                IF e_mode = "single" THEN <<"vec">> ELSE result_embeddings(e_texts)

\* A call that failed after more than two attempts, all of them failing.
C18_Witness ==
    /\ EndedAfterChecks
    /\ AllFailed
    /\ max_retries > 1
    /\ Len(e_calls) = max_retries + 1
    /\ e_out.status = "raised"

RECURSIVE SumSeq(_)
SumSeq(q) == IF q = <<>> THEN 0 ELSE q[1] + SumSeq(Tail(q))

\* C19: the wait after failed attempt a (from 0) is 2^a seconds, there is one
\* wait between two attempts and none after the last, so a call whose R + 1
\* attempts all fail waits R times, 2^R - 1 seconds in all.
C19_Backoff ==
    /\ \A k \in 1..Len(e_waits) : e_waits[k] = Pow2(k - 1)
    /\ e_pc = "attempt" => Len(e_waits) = Len(e_calls)
    /\ (e_pc = "done" /\ e_calls # <<>>) => Len(e_waits) = Len(e_calls) - 1
    /\ (EndedAfterChecks /\ AllFailed) =>
          /\ Len(e_waits) = max_retries
          /\ SumSeq(e_waits) = Pow2(max_retries) - 1

\* A call that failed after waiting 1, 2 and more seconds between attempts.
C19_Witness ==
    /\ EndedAfterChecks
    /\ AllFailed
    /\ e_out.status = "raised"
    /\ Len(e_waits) > 1
    /\ Len(e_waits) = max_retries

\* C20: generate_embedding of an empty or whitespace-only text fails with a
\* validation error (ValueError), a kind of error other than the one of
\* endpoint failures, without any endpoint call or wait, and returns no vector.
C20_EmptyTextValidationError ==
    (e_pc = "done" /\ e_mode = "single" /\ EmptyText(e_texts[1])) =>
        /\ e_out.status = "raised"
        /\ e_out.error = "ValueError"
        /\ e_out.embeddings = <<>>
        /\ e_calls = <<>>
        /\ e_waits = <<>>


\* A batch call (generate_embeddings or generate_embeddings_async) has
\* returned its list.
BatchReturned ==
    /\ e_pc = "done"
    /\ e_mode \in {"batch", "async"}
    /\ e_out.status = "returned"

\* C21: the list generate_embeddings returns has the length of its input;
\* position i holds a zero vector exactly when text i is empty or whitespace
\* only; the other positions hold the endpoint's vectors in their order; and
\* the request holds the non-empty texts only.
C21_PositionalMapping ==
    BatchReturned =>
        /\ Len(e_vectors) = Len(e_texts)
        /\ \A k \in 1..Len(e_texts) :
              (e_vectors[k].item = 0) <=> EmptyText(e_texts[k])
        /\ \A k \in 1..Len(e_texts) :
              ~EmptyText(e_texts[k]) =>
                 e_vectors[k].item = Cardinality({j \in 1..k : ~EmptyText(e_texts[j])})
        /\ \A n \in 1..Len(e_sent) : \A j \in 1..Len(e_sent[n]) :
              e_sent[n][j].text # ""


\* A batch call on a list that is not empty has ended, every call of the
\* endpoint it made having been answered in full.
BatchEndedWorking ==
    /\ e_pc = "done"
    /\ e_mode \in {"batch", "async"}
    /\ e_texts # <<>>
    /\ \A k \in 1..Len(e_calls) : e_calls[k] = "ok"

\* The positions of texts that are empty or whitespace only.
EmptyPositions == {k \in 1..Len(e_texts) : EmptyText(e_texts[k])}

SingleReturned ==
    /\ e_pc = "done"
    /\ e_mode = "single"
    /\ e_out.status = "returned"

\* C23: a vector generate_embedding returns has the length
\* get_embedding_dimension() gives for the configured model; a response with
\* a vector of another length does not become a successful result.
C23_ReturnedDimension ==
    SingleReturned =>
        /\ Len(e_vectors) = 1
        /\ e_vectors[1].dim = get_embedding_dimension

\* C24: every text sent to the endpoint, alone or in a batch, on the first
\* attempt and on every retry, is at most 8191 characters long; each attempt
\* sends the same input.
C24_SentLengthBounded ==
    /\ Len(e_sent) = Len(e_calls)
    /\ \A n \in 1..Len(e_sent) :
          /\ e_sent[n] = Input(e_mode, e_texts)
          /\ Len(e_sent[n]) <= Len(e_texts)
          /\ \A j \in 1..Len(e_sent[n]) : e_sent[n][j].length <= 8191

\* A text longer than the limit was sent, cut, on a retry.
C24_Witness ==
    /\ Len(e_sent) > 1
    /\ \E k \in 1..Len(e_texts) : e_texts[k] = "long"
    /\ \E j \in 1..Len(e_sent[Len(e_sent)]) : e_sent[Len(e_sent)][j].length = 8191


\* ------------------------------------------------------------- query processor
\* The vectors the endpoint can answer a query with.
Vectors == {1, 2}

\* Similarity scores and thresholds, in hundredths.
Scores == {60, 70, 85}

Thresholds == {70, 90}

\* A row of the similarity search: its score, and whether VectorChunk(...)
\* can be built from it and take the score ("row") or raises ("bad").
RowKinds ==
    [similarity : Scores, form : {"row"}] \cup [similarity : {85}, form : {"bad"}]

CacheHitNever(query) == FALSE

\* query.py line 48: query in self._embedding_cache
CacheHit(query) == query \in DOMAIN embedding_cache

StoredAlone(cache, query, embedding) == [q \in {query} |-> embedding]

\* line 63: self._embedding_cache[query] = embedding
Stored(cache, query, embedding) ==
    [q \in DOMAIN cache \cup {query} |->
        IF q = query THEN embedding ELSE cache[q]]

\* A call of a collaborator: embeddings.create or the rpc "vector_search";
\* ok when it answered rather than raised, n is len(response.data), and for
\* the rpc data is the rows read from it so far.
Collab(op, arg, match_count, ok, n) ==
    [op |-> op, arg |-> arg, match_count |-> match_count, ok |-> ok, n |-> n,
     data |-> <<>>]

\* embed_query (lines 45-70) for the query, the endpoint answering with
\* outcome o and vector v: what it returns or raises, the cache afterwards and
\* the calls it made.
EmbedQuery(query, o, v) ==
    IF CacheHit(query)
    THEN [hit |-> TRUE, status |-> "returned", error |-> "",
          embedding |-> embedding_cache[query], cache |-> embedding_cache,
          calls |-> <<>>]
    ELSE IF o = "ok"
    THEN [hit |-> FALSE, status |-> "returned", error |-> "",
          embedding |-> v, cache |-> Stored(embedding_cache, query, v),
          calls |-> <<Collab("embeddings.create", query, 0, TRUE, 1)>>]
    ELSE [hit |-> FALSE, status |-> "raised",
          error |-> IF o = "short" THEN "IndexError" ELSE "APIError",
          embedding |-> 0, cache |-> embedding_cache,
          calls |-> <<Collab("embeddings.create", query, 0, o = "short", 0)>>]

\* What the endpoint may answer to embed_query(query): nothing is asked of
\* it on a cache hit, and only the answer "ok" carries a vector.
Answers(query) ==
    IF CacheHit(query) THEN {[o |-> "none", v |-> 0]}
    ELSE [o : {"ok"}, v : Vectors] \cup [o : ApiOutcomes \ {"ok"}, v : {0}]

\* The vectors the endpoint has returned for each query, with this call.
Embedded(query, e) ==
    IF e.hit \/ e.status # "returned" \/ Len(q_embedded[query]) >= MaxCreated
    THEN q_embedded
    ELSE [q_embedded EXCEPT ![query] = Append(@, e.embedding)]

\* line 116, negated: the row is not skipped for its score
Keep(similarity, similarity_threshold) == ~(similarity < similarity_threshold)

\* lines 119-129: VectorChunk(...) is built from the row and takes the score
Parses(row) == row.form = "row"

\* The chunk built from row k of the response, with its score as
\* metadata['similarity_score'].
ChunkOf(k, row) == [row |-> k, similarity_score |-> row.similarity]

StoreFailureSwallowed == [status |-> "returned", error |-> ""]

\* lines 139-141: an exception of the rpc call is logged and raised again
StoreFailure == [status |-> "raised", error |-> "StoreError"]

AfterEmbedAlways(status) == "search"

\* search_documents, lines 164-167: vector_search runs when embed_query
\* returned; its exception goes to the handler of line 176
AfterEmbed(status) == IF status = "returned" THEN "search" ELSE "idle"

\* A call record of the query processor.
QueryCall(op, query, top_k, threshold, hit, status, error, embedding) ==
    [op |-> op, query |-> query, top_k |-> top_k, threshold |-> threshold,
     hit |-> hit, status |-> status, error |-> error, embedding |-> embedding,
     chunks |-> <<>>]

\* embed_query called by itself.
embed_query(query) ==
    /\ q_pc = "idle"
    /\ q_pc' = "idle"
    /\ \E a \in Answers(query) :
         LET e == EmbedQuery(query, a.o, a.v)
         IN  /\ embedding_cache' = e.cache
             /\ q_embedded' = Embedded(query, e)
             /\ q_log' = e.calls
             /\ q_call' = QueryCall("embed_query", query, 0, 0, e.hit, e.status,
                                    e.error, e.embedding)
    /\ UNCHANGED <<ingest_vars, mem_vars, emb_vars, chat_vars, conc_vars>>

\* The rpc call of vector_search (lines 96-106) with the tests that follow
\* it: the store fails, answers without rows, or answers with n rows, as
\* many as the store pleases.
rpc_vector_search(calls, call) ==
    \E ok \in BOOLEAN : \E n \in (IF ok THEN 0..MaxCandidates ELSE {0}) :
        /\ q_log' = Append(calls, Collab("rpc", call.embedding, call.top_k, ok, n))
        /\ IF ~ok
           THEN /\ q_pc' = "idle"
                /\ q_call' = [call EXCEPT !.status = StoreFailure.status,
                                          !.error = StoreFailure.error]
           ELSE IF n = 0
           THEN /\ q_pc' = "idle"
                /\ q_call' = [call EXCEPT !.status = "returned"]
           ELSE /\ q_pc' = "loop"
                /\ q_call' = [call EXCEPT !.status = "running"]

\* vector_search called by itself.
vector_search(query_embedding, top_k, similarity_threshold) ==
    /\ q_pc = "idle"
    /\ rpc_vector_search(<<>>, QueryCall("vector_search", "", top_k,
                                          similarity_threshold, FALSE, "running",
                                          "", query_embedding))
    /\ UNCHANGED <<ingest_vars, mem_vars, emb_vars, chat_vars, conc_vars, embedding_cache, q_embedded>>

\* One turn of the loop of vector_search (lines 109-134) over the next row of
\* response.data; after the last row the chunks are returned (line 137).
vector_search_row ==
    /\ q_pc = "loop"
    /\ LET rpc == q_log[Len(q_log)]
           k == Len(rpc.data) + 1
       IN  \E row \in RowKinds :
             /\ q_log' = [q_log EXCEPT ![Len(q_log)].data = Append(@, row)]
             /\ q_call' = [q_call EXCEPT
                    !.chunks = IF Keep(row.similarity, q_call.threshold) /\ Parses(row)
                               THEN Append(@, ChunkOf(k, row))
                               ELSE @,
                    !.status = IF k = rpc.n THEN "returned" ELSE @]
             /\ q_pc' = IF k = rpc.n THEN "idle" ELSE "loop"
    /\ UNCHANGED <<ingest_vars, mem_vars, emb_vars, chat_vars, conc_vars, embedding_cache, q_embedded>>

\* search_documents up to the return of embed_query (lines 160-164); an
\* exception is logged and raised again as it is (lines 176-178).
search_documents(query, top_k, similarity_threshold) ==
    /\ q_pc = "idle"
    /\ \E a \in Answers(query) :
         LET e == EmbedQuery(query, a.o, a.v)
         IN  /\ embedding_cache' = e.cache
             /\ q_embedded' = Embedded(query, e)
             /\ q_log' = e.calls
             /\ q_pc' = AfterEmbed(e.status)
             /\ q_call' = QueryCall("search_documents", query, top_k,
                                    similarity_threshold, e.hit,
                                    IF e.status = "returned" THEN "running" ELSE e.status,
                                    e.error, e.embedding)
    /\ UNCHANGED <<ingest_vars, mem_vars, emb_vars, chat_vars, conc_vars>>

\* search_documents at its call of vector_search (lines 167-171).
search_documents_search ==
    /\ q_pc = "search"
    /\ rpc_vector_search(q_log, q_call)
    /\ UNCHANGED <<ingest_vars, mem_vars, emb_vars, chat_vars, conc_vars, embedding_cache, q_embedded>>

QueryInit ==
    /\ IngestAtRest
    /\ MemAtRest /\ memory_limit = 1
    /\ EmbAtRest /\ max_retries = 0
    /\ QueryAtRest
    /\ ChatAtRest
    /\ ConcAtRest

QueryNext ==
    \/ \E query \in Queries : embed_query(query)
    \/ \E v \in Vectors : \E top_k \in 1..MaxTopK : \E th \in Thresholds :
         vector_search(v, top_k, th)
    \/ vector_search_row
    \/ \E query \in Queries : \E top_k \in 1..MaxTopK : \E th \in Thresholds :
         search_documents(query, top_k, th)
    \/ search_documents_search

SpecQuery == QueryInit /\ [][QueryNext]_vars

QueryTypeOK ==
    /\ q_pc \in {"idle", "search", "loop"}
    /\ DOMAIN embedding_cache \subseteq Queries
    /\ \A q \in DOMAIN embedding_cache : embedding_cache[q] \in Vectors
    /\ q_call.status \in {"none", "running", "returned", "raised"}
    /\ Len(q_log) <= 2
    /\ \A q \in Queries : Len(q_embedded[q]) <= MaxCreated

\* ------------------------------------------------------- query processor claims
\* The calls of the embedding endpoint the last operation made.
CreateCalls == {j \in 1..Len(q_log) : q_log[j].op = "embeddings.create"}

\* The calls of the store's similarity search the last operation made.
RpcCalls == {j \in 1..Len(q_log) : q_log[j].op = "rpc"}

\* The last operation ran embed_query and is past it.
EmbedDone == q_call.op \in {"embed_query", "search_documents"}

\* The last operation ran vector_search to its end.
SearchEnded ==
    /\ q_pc = "idle"
    /\ RpcCalls # {}

\* The rows of the store's answer whose score is not below the threshold.
AtLeastThreshold(rpc) ==
    SelectSeq([k \in 1..Len(rpc.data) |-> [row |-> k, similarity_score |-> rpc.data[k].similarity]],
              LAMBDA c : c.similarity_score >= q_call.threshold)

\* C25: the endpoint answers at most once per query string with a vector;
\* every string answered stays in the cache with that vector, and a later
\* call with it returns that vector without calling the endpoint.
C25_Memoized ==
    /\ \A q \in Queries : Len(q_embedded[q]) <= 1
    /\ DOMAIN embedding_cache = {q \in Queries : q_embedded[q] # <<>>}
    /\ \A q \in DOMAIN embedding_cache : embedding_cache[q] = q_embedded[q][1]
    /\ (EmbedDone /\ q_call.hit) =>
          /\ CreateCalls = {}
          /\ q_call.embedding = q_embedded[q_call.query][1]

C25_Witness ==
    /\ q_call.op = "embed_query"
    /\ q_call.hit
    /\ q_call.status = "returned"
    /\ DOMAIN embedding_cache = Queries
    /\ embedding_cache["blank"] # embedding_cache["q1"]

\* C26: embed_query of a whitespace-only query fails with a ValidationError
\* before any call of the embedding endpoint, and caches nothing.
C26_BlankQueryRejected ==
    (q_call.op = "embed_query" /\ q_call.query = "blank") =>
        /\ q_call.status = "raised"
        /\ q_call.error = "ValidationError"
        /\ CreateCalls = {}
        /\ "blank" \notin DOMAIN embedding_cache

\* C27: vector_search returns exactly the rows of the store's answer whose
\* similarity is at least the threshold, in the store's order, each with its
\* own score.
C27_ThresholdFiltering ==
    (SearchEnded /\ q_call.status = "returned") =>
        q_call.chunks = AtLeastThreshold(q_log[Len(q_log)])

\* C28: vector_search never returns more than top_k chunks.
C28_AtMostTopK ==
    (SearchEnded /\ q_call.status = "returned") => Len(q_call.chunks) <= q_call.top_k

\* C29: vector_search returns an empty list without error when the store
\* answers with no row or only rows below the threshold, and raises whenever
\* the store call fails.
C29_EmptyOrRaise ==
    SearchEnded =>
        LET rpc == q_log[Len(q_log)]
        IN  /\ ~rpc.ok => (q_call.status = "raised" /\ q_call.error = "StoreError")
            /\ (rpc.ok /\ AtLeastThreshold(rpc) = <<>>) =>
                  (q_call.status = "returned" /\ q_call.error = "" /\ q_call.chunks = <<>>)

C29_Witness ==
    /\ SearchEnded
    /\ q_call.op = "vector_search"
    /\ q_log[Len(q_log)].ok
    /\ Len(q_log[Len(q_log)].data) >= 2
    /\ q_call.status = "returned"
    /\ q_call.chunks = <<>>

\* C30: search_documents calls the store's similarity search only after
\* embed_query returned a vector for the query, and with that vector; when
\* embed_query fails no search is made and its error is raised unchanged.
C30_EmbedThenSearch ==
    q_call.op = "search_documents" =>
        /\ \A j \in RpcCalls :
              /\ j = Len(q_log)
              /\ \A c \in CreateCalls : c < j /\ q_log[c].ok /\ q_log[c].n = 1
                                         /\ q_log[c].arg = q_call.query
              /\ q_call.query \in DOMAIN embedding_cache
              /\ q_log[j].arg = embedding_cache[q_call.query]
              /\ q_log[j].arg = q_call.embedding
        /\ \A c \in CreateCalls : ~(q_log[c].ok /\ q_log[c].n = 1) =>
              /\ RpcCalls = {}
              /\ q_pc = "idle"
              /\ q_call.status = "raised"
              /\ q_call.error = IF q_log[c].ok THEN "IndexError" ELSE "APIError"
        /\ (CreateCalls = {} /\ RpcCalls # {}) => q_call.hit

C30_Witness ==
    /\ q_call.op = "search_documents"
    /\ q_pc = "idle"
    /\ Len(q_log) = 2
    /\ q_log[1].op = "embeddings.create"
    /\ q_log[2].op = "rpc"
    /\ q_call.status = "returned"
    /\ q_call.chunks # <<>>

\* The last operation's embed_query called the endpoint and raised.
EmbedFailed ==
    /\ EmbedDone
    /\ \E c \in CreateCalls : ~(q_log[c].ok /\ q_log[c].n = 1)

\* C39: a failed embed_query leaves the cache as it was, and the next
\* embed_query of the same string calls the endpoint again; no step removes
\* or overwrites an entry of the cache.
C39_CacheSuccessOnly ==
    [][/\ \A q \in DOMAIN embedding_cache :
             /\ q \in DOMAIN embedding_cache'
             /\ embedding_cache'[q] = embedding_cache[q]
       /\ EmbedFailed' => (embedding_cache' = embedding_cache
                           /\ q_call'.query \notin DOMAIN embedding_cache')
       /\ (EmbedFailed /\ q_pc = "idle" /\ EmbedDone' /\ q_call'.query = q_call.query)
             => CreateCalls' # {}]_vars

C39_Witness ==
    /\ q_call.op = "embed_query"
    /\ EmbedFailed
    /\ q_call.status = "raised"
    /\ DOMAIN embedding_cache # {}
    /\ q_call.query \notin DOMAIN embedding_cache


\* ------------------------------------------------------------- chat orchestrator
\* What chat.completions.create can do: answer with a text, with an empty or
\* whitespace-only text, without choices, or raise.
GenOutcomes == {"text", "empty", "blank", "no_choice", "fail"}

\* chat.py line 209: chat_history[-10:]
HistoryWindow == 10

\* line 285: chat_history[-5:]
FallbackWindow == 5

\* The history the memory manager returns: n items, oldest first.
History(n) == [k \in 1..n |-> [turn_index |-> k]]

\* The chunks search_documents returns.
Retrieved(n) == [k \in 1..n |-> k]

\* seq[-n:]
LastItems(seq, n) ==
    IF Len(seq) > n THEN SubSeq(seq, Len(seq) - n + 1, Len(seq)) ELSE seq

\* _build_context_string (lines 161-183): a fixed sentence without chunks,
\* else one numbered part per chunk.
build_context_string(chunks) == [found |-> chunks # <<>>, sources |-> chunks]

NoContext == [found |-> FALSE, sources |-> <<>>]

\* A message of the prompt: its role and what its content is made of.
Message(role, kind, turn, query, context_text) ==
    [role |-> role, kind |-> kind, turn |-> turn, query |-> query,
     context |-> context_text]

\* lines 209-219 and 285-295: every item gives a user message with its
\* user_message, then an assistant message with its ai_response.
Expand(items) ==
    [j \in 1..2 * Len(items) |->
        IF j % 2 = 1
        THEN Message("user", "user_message", items[(j + 1) \div 2].turn_index, "", NoContext)
        ELSE Message("assistant", "ai_response", items[j \div 2].turn_index, "", NoContext)]

\* _build_conversation_messages (lines 202-231)
build_conversation_messages(query, context_text, chat_history) ==
    <<Message("system", "system_prompt", 0, "", NoContext)>>
    \o Expand(LastItems(chat_history, HistoryWindow))
    \o <<Message("user", "question", 0, query, context_text)>>

\* The messages of _generate_fallback_response (lines 271-301)
fallback_messages(query, chat_history) ==
    <<Message("system", "fallback_prompt", 0, "", NoContext)>>
    \o Expand(LastItems(chat_history, FallbackWindow))
    \o <<Message("user", "not_found", 0, query, NoContext)>>

\* generate_response after the endpoint's answer (lines 70-95): the text, or
\* an exception for an empty text, a missing choice or a failed call.
GenerateResponse(o) ==
    IF o = "text" THEN [status |-> "returned", error |-> "", text |-> "answer"]
    ELSE IF o \in {"empty", "blank"}
    THEN [status |-> "raised", error |-> "Empty response from OpenAI", text |-> ""]
    ELSE IF o = "no_choice" THEN [status |-> "raised", error |-> "IndexError", text |-> ""]
    ELSE [status |-> "raised", error |-> "APIError", text |-> ""]

FallbackRaises(o) == GenerateResponse(o)

\* _generate_fallback_response after the endpoint's answer (lines 303-320)
FallbackResponse(o) ==
    IF o = "text" THEN [status |-> "returned", error |-> "", text |-> "answer"]
    ELSE IF o \in {"empty", "blank"}
    THEN [status |-> "returned", error |-> "",
          text |-> "I'm sorry, I couldn't generate a response."]
    ELSE [status |-> "returned", error |-> "", text |-> "I'm sorry, ... encountered an error"]

UseContextAlways(context_chunks) == TRUE

\* line 131: if context_chunks
UseContext(context_chunks) == context_chunks # <<>>

NextStepAlways(status, step) == step

\* lines 121-159: the next step runs when this one returned; an exception
\* goes to the handler of line 157, which raises it again
NextStep(status, step) == IF status = "returned" THEN step ELSE "idle"

\* A call of a collaborator by process_query: whether it returned, the
\* chunks it took or gave, the messages it sent to the endpoint and the
\* endpoint's answer, the turn it stored.
ChatCollab(op, ok, chunks, messages, answer, turn) ==
    [op |-> op, ok |-> ok, chunks |-> chunks, messages |-> messages,
     answer |-> answer, turn |-> turn]

NoTurn == [session_id |-> "", user_message |-> "", ai_response |-> ""]

\* process_query ends with the exception of one of its steps (lines 157-159).
Raised(call, error) == [call EXCEPT !.status = "raised", !.error = error]

\* process_query, step 1 (lines 123-125): search_documents.
process_query(query, session_id) ==
    /\ c_pc = "idle"
    /\ Len(c_stored) < MaxStored
    /\ c_before' = c_stored
    /\ c_stored' = c_stored
    /\ LET call == [NoChatCall EXCEPT !.op = "process_query", !.query = query,
                                      !.session_id = session_id, !.status = "running"]
       IN  \E ok \in BOOLEAN : \E n \in (IF ok THEN 0..MaxTopK ELSE {0}) :
             /\ c_log' = <<ChatCollab("search_documents", ok, Retrieved(n), <<>>, "", NoTurn)>>
             /\ c_pc' = NextStep(IF ok THEN "returned" ELSE "raised", "history")
             /\ c_call' = IF ok THEN [call EXCEPT !.retrieved = Retrieved(n)]
                          ELSE Raised(call, "SearchError")
    /\ UNCHANGED <<ingest_vars, mem_vars, emb_vars, query_vars, conc_vars>>

\* Step 2 (line 128): get_chat_memory.
process_query_history ==
    /\ c_pc = "history"
    /\ \E ok \in BOOLEAN : \E n \in (IF ok THEN 0..MaxHistory ELSE {0}) :
         /\ c_log' = Append(c_log, ChatCollab("get_chat_memory", ok, <<>>, <<>>, "", NoTurn))
         /\ c_pc' = NextStep(IF ok THEN "returned" ELSE "raised", "generate")
         /\ c_call' = IF ok THEN [c_call EXCEPT !.history = History(n)]
                      ELSE Raised(c_call, "MemoryError")
    /\ UNCHANGED <<ingest_vars, mem_vars, emb_vars, query_vars, conc_vars, c_stored, c_before>>

\* Step 3 (lines 131-138): generate_response with the chunks, or
\* _generate_fallback_response without.
process_query_generate ==
    /\ c_pc = "generate"
    /\ \E o \in GenOutcomes :
         IF UseContext(c_call.retrieved)
         THEN LET r == GenerateResponse(o)
                  messages == build_conversation_messages(
                                  c_call.query, build_context_string(c_call.retrieved),
                                  c_call.history)
              IN  /\ c_log' = Append(c_log, ChatCollab("generate_response",
                                     r.status = "returned", c_call.retrieved, messages, o, NoTurn))
                  /\ c_pc' = NextStep(r.status, "store")
                  /\ c_call' = IF r.status = "returned"
                               THEN [c_call EXCEPT !.path = "context", !.response = r.text]
                               ELSE Raised([c_call EXCEPT !.path = "context"], r.error)
         ELSE LET r == FallbackResponse(o)
                  messages == fallback_messages(c_call.query, c_call.history)
              IN  /\ c_log' = Append(c_log, ChatCollab("_generate_fallback_response",
                                     r.status = "returned", <<>>, messages, o, NoTurn))
                  /\ c_pc' = NextStep(r.status, "store")
                  /\ c_call' = IF r.status = "returned"
                               THEN [c_call EXCEPT !.path = "fallback", !.response = r.text]
                               ELSE Raised([c_call EXCEPT !.path = "fallback"], r.error)
    /\ UNCHANGED <<ingest_vars, mem_vars, emb_vars, query_vars, conc_vars, c_stored, c_before>>

\* Step 4 (lines 141-155): store_chat_turn, then the return of the response
\* and the chunks of step 1.
process_query_store ==
    /\ c_pc = "store"
    /\ c_pc' = "idle"
    /\ LET turn == [session_id |-> c_call.session_id, user_message |-> c_call.query,
                    ai_response |-> c_call.response]
       IN  \E ok \in BOOLEAN :
             /\ c_log' = Append(c_log, ChatCollab("store_chat_turn", ok, <<>>, <<>>, "", turn))
             /\ c_stored' = IF ok THEN Append(c_stored, turn) ELSE c_stored
             /\ c_call' = IF ok
                          THEN [c_call EXCEPT !.status = "returned",
                                              !.chunks = c_call.retrieved]
                          ELSE Raised(c_call, "StoreError")
    /\ UNCHANGED <<ingest_vars, mem_vars, emb_vars, query_vars, conc_vars, c_before>>

ChatInit ==
    /\ IngestAtRest
    /\ MemAtRest /\ memory_limit = 1
    /\ EmbAtRest /\ max_retries = 0
    /\ QueryAtRest
    /\ ChatAtRest
    /\ ConcAtRest

ChatNext ==
    \/ \E query \in Queries : \E session_id \in Sessions : process_query(query, session_id)
    \/ process_query_history
    \/ process_query_generate
    \/ process_query_store

SpecChat == ChatInit /\ [][ChatNext]_vars

ChatTypeOK ==
    /\ c_pc \in {"idle", "history", "generate", "store"}
    /\ c_call.status \in {"none", "running", "returned", "raised"}
    /\ Len(c_log) <= 4
    /\ Len(c_stored) <= MaxStored


\* ------------------------------------------------------- chat orchestrator claims
\* The calls of a collaborator the running process_query made.
ChatOps(op) == {j \in 1..Len(c_log) : c_log[j].op = op}

\* process_query has returned to its caller.
QueryReturned ==
    /\ c_pc = "idle"
    /\ c_call.status = "returned"

\* C31: process_query calls generate_response exactly when retrieval returned
\* at least one chunk and _generate_fallback_response exactly when it
\* returned none, one of them once and never both; the chunks it returns are
\* the retrieved ones.
C31_OneGenerationPath ==
    LET gen == ChatOps("generate_response")
        fb == ChatOps("_generate_fallback_response")
    IN  /\ Cardinality(gen \cup fb) <= 1
        /\ gen # {} => c_log[1].chunks # <<>>
        /\ fb # {} => c_log[1].chunks = <<>>
        /\ (c_pc = "store" \/ ChatOps("store_chat_turn") # {}) =>
              /\ c_log[1].chunks # <<>> => gen # {}
              /\ c_log[1].chunks = <<>> => fb # {}
        /\ QueryReturned => c_call.chunks = c_log[1].chunks

C31_Witness ==
    /\ QueryReturned
    /\ ChatOps("generate_response") # {}
    /\ Len(c_call.chunks) = MaxTopK

\* C32: process_query calls search_documents, get_chat_memory, the generation
\* and store_chat_turn in this order; a call that returns has stored exactly
\* one turn, the query with the returned response; when search_documents,
\* get_chat_memory or generate_response raises, process_query raises that
\* error, store_chat_turn is not called and the stored turns are as before.
C32_StepOrder ==
    /\ \A j \in 1..Len(c_log) :
          c_log[j].op \in
              (CASE j = 1 -> {"search_documents"}
                 [] j = 2 -> {"get_chat_memory"}
                 [] j = 3 -> {"generate_response", "_generate_fallback_response"}
                 [] OTHER -> {"store_chat_turn"})
    /\ Len(c_log) <= 4
    /\ QueryReturned =>
          /\ Len(c_log) = 4
          /\ c_stored = Append(c_before, [session_id |-> c_call.session_id,
                                          user_message |-> c_call.query,
                                          ai_response |-> c_call.response])
    /\ \A j \in 1..Len(c_log) :
          (c_log[j].op # "store_chat_turn" /\ ~c_log[j].ok) =>
              /\ j = Len(c_log)
              /\ c_pc = "idle"
              /\ c_call.status = "raised"
              /\ c_call.error =
                    (CASE j = 1 -> "SearchError"
                       [] j = 2 -> "MemoryError"
                       [] OTHER -> GenerateResponse(c_log[j].answer).error)
              /\ c_stored = c_before

C32_Witness ==
    /\ c_call.status = "raised"
    /\ ChatOps("generate_response") # {}
    /\ c_before # <<>>
    /\ c_stored = c_before

\* The apologies of _generate_fallback_response (chat.py lines 314, 320).
Apologies ==
    {"I'm sorry, I couldn't generate a response.", "I'm sorry, ... encountered an error"}

\* C33: _generate_fallback_response never raises: when the endpoint fails or
\* answers with an empty or whitespace-only text it returns an apology, and
\* process_query goes on to store the turn.
C33_FallbackNeverRaises ==
    \A j \in ChatOps("_generate_fallback_response") :
        /\ c_log[j].ok
        /\ c_call.error \in {"", "StoreError"}
        /\ c_pc = "store" \/ ChatOps("store_chat_turn") # {}
        /\ IF c_log[j].answer = "text" THEN c_call.response = "answer"
           ELSE c_call.response \in Apologies

C33_Witness ==
    /\ QueryReturned
    /\ \E j \in ChatOps("_generate_fallback_response") : c_log[j].answer = "fail"
    /\ c_call.response \in Apologies
    /\ c_stored # c_before

\* C34: the prompt of generate_response is one system message, then the last
\* 5 turns of the history in order, each as a user message followed by an
\* assistant message (at most 10 messages), then one user message with the
\* context and the query.
C34_PromptStructure ==
    \A j \in ChatOps("generate_response") :
        LET m == c_log[j].messages
            window == LastItems(c_call.history, 5)
        IN  /\ Len(m) >= 2
            /\ m[1].role = "system"
            /\ m[Len(m)] = Message("user", "question", 0, c_call.query,
                                   build_context_string(c_call.retrieved))
            /\ Len(m) - 2 <= 10
            /\ SubSeq(m, 2, Len(m) - 1) = Expand(window)


\* ------------------------------------------------- memory manager, two callers
\* The memory manager called by two callers whose store calls interleave:
\* every insert, select and delete is one step.
Other(p) == CHOOSE q \in Callers : q # p

ConcCall(op, s, t, status, overlap) ==
    [NoConcCall EXCEPT !.op = op, !.session_id = s, !.turn = t,
                       !.status = status, !.overlap = overlap]

\* datetime.now(timezone.utc) of line 122 for the call of session s that starts as
\* turn t: a later time than every call before read, or, when the other
\* caller has just read its own and made no store call yet, possibly the
\* same microsecond (TRUE).  Rows are ordered within a session only, so the
\* equal reading is drawn when both calls are for the same session.
Timestamps(p, s, t) ==
    IF /\ p_pc[Other(p)] = "insert"
       /\ p_call[Other(p)].turn = t - 1
       /\ p_call[Other(p)].session_id = s
       /\ t - 1 \notin p_tied
    THEN BOOLEAN ELSE {FALSE}

\* The turn_timestamp of turn t.
StampOf(t) == IF t \in p_tied THEN t - 1 ELSE t

\* The records of lines 126-143, with created_at the turn_timestamp.
Stamped(rows) == {[r EXCEPT !.created_at = StampOf(r.content)] : r \in rows}

\* store_chat_turn up to its insert (memory.py lines 117-143): the timestamp
\* is read (tied: it equals the one the other caller has just read) and the
\* two records are built.
conc_store_chat_turn(p, s, tied) ==
    /\ p_pc[p] = "idle"
    /\ clock < MaxConcTurns
    /\ clock' = clock + 1
    /\ tied \in Timestamps(p, s, clock + 1)
    /\ p_tied' = IF tied THEN p_tied \cup {clock + 1} ELSE p_tied
    /\ p_pc' = [p_pc EXCEPT ![p] = "insert"]
    /\ LET busy == p_pc[Other(p)] # "idle" /\ p_call[Other(p)].session_id = s
       IN  p_call' = [q \in Callers |->
                        IF q = p
                        THEN ConcCall("store_chat_turn", s, clock + 1, "running",
                                      IF busy THEN {p_call[Other(p)].turn} ELSE {})
                        ELSE IF busy THEN [p_call[q] EXCEPT !.overlap = @ \cup {clock + 1}]
                        ELSE p_call[q]]
    /\ p_sel' = [p_sel EXCEPT ![p] = {}]
    /\ UNCHANGED <<ingest_vars, emb_vars, query_vars, chat_vars, chat_histories,
                   memory_limit, m_pc, m_call, m_sel, m_before, m_prev, m_turns, m_fault>>

\* The insert and the test of its response (lines 146-151).  Here the store
\* stores both rows and returns them (SpecMem has the other outcomes).
conc_insert(p) ==
    /\ p_pc[p] = "insert"
    /\ LET s == p_call[p].session_id
           t == p_call[p].turn
       IN  /\ chat_histories' = chat_histories \cup Stamped(Persisted("ok", s, t))
           /\ InsertConfirmed(ResponseLen("ok"))
           /\ p_pc' = [p_pc EXCEPT ![p] = "select"]
           /\ m_turns' = [m_turns EXCEPT ![s] = @ \cup {t}]
    /\ UNCHANGED <<ingest_vars, emb_vars, query_vars, chat_vars, clock, memory_limit,
                   m_pc, m_call, m_sel, m_before, m_prev, m_fault, p_call, p_sel, p_tied>>

\* The select of _cleanup_old_messages, the test of line 298 and the ids to
\* delete (lines 294-306).  Here the selects and deletes of the store
\* succeed (SpecMem has their failures).
conc_select(p) ==
    /\ p_pc[p] = "select"
    /\ \E q \in DescOrders(SessionRows(chat_histories, p_call[p].session_id)) :
         LET read == [p_call[p] EXCEPT
                        !.sessions = {q[k].session_id : k \in 1..Len(q)}]
         IN  IF CleanupNeeded(Len(q))
             THEN /\ p_pc' = [p_pc EXCEPT ![p] = "delete"]
                  /\ p_sel' = [p_sel EXCEPT ![p] = OldIds(OldMessages(q))]
                  /\ p_call' = [p_call EXCEPT ![p] = read]
             ELSE /\ p_pc' = [p_pc EXCEPT ![p] = "idle"]
                  /\ p_sel' = [p_sel EXCEPT ![p] = {}]
                  /\ p_call' = [p_call EXCEPT ![p] =
                                  [read EXCEPT !.status = "returned",
                                               !.cleanup = "skipped"]]
    /\ UNCHANGED <<ingest_vars, emb_vars, query_vars, chat_vars, mem_vars, p_tied>>

\* The delete of _cleanup_old_messages (lines 307-309), of the ids selected.
conc_delete(p) ==
    /\ p_pc[p] = "delete"
    /\ p_pc' = [p_pc EXCEPT ![p] = "idle"]
    /\ p_sel' = [p_sel EXCEPT ![p] = {}]
    /\ chat_histories' = {r \in chat_histories : r.id \notin p_sel[p]}
    /\ p_call' = [p_call EXCEPT ![p].status = "returned", ![p].cleanup = "deleted"]
    /\ UNCHANGED <<ingest_vars, emb_vars, query_vars, chat_vars, clock, memory_limit,
                   m_pc, m_call, m_sel, m_before, m_prev, m_turns, m_fault, p_tied>>

\* get_chat_memory by a caller: one select (memory.py lines 60-62).
conc_get_chat_memory(p, s) ==
    /\ p_pc[p] = "idle"
    /\ \E data \in {Take(q, memory_limit * 2) :
                       q \in DescOrders(SessionRows(chat_histories, s))} :
         p_call' = [p_call EXCEPT ![p] =
                       [ConcCall("get_chat_memory", s, 0, "returned", {})
                        EXCEPT !.sessions = {data[k].session_id : k \in 1..Len(data)}]]
    /\ UNCHANGED <<ingest_vars, emb_vars, query_vars, chat_vars, mem_vars, p_pc, p_sel, p_tied>>

\* clear_session_memory by a caller: one delete (lines 275-277).
conc_clear_session_memory(p, s) ==
    /\ p_pc[p] = "idle"
    /\ chat_histories' = ClearRows(chat_histories, s)
    /\ m_turns' = [m_turns EXCEPT ![s] = {}]
    /\ p_call' = [p_call EXCEPT ![p] =
                    ConcCall("clear_session_memory", s, 0, "returned", {})]
    /\ UNCHANGED <<ingest_vars, emb_vars, query_vars, chat_vars, clock, memory_limit,
                   m_pc, m_call, m_sel, m_before, m_prev, m_fault, p_pc, p_sel, p_tied>>

ConcInit ==
    /\ IngestAtRest
    /\ QueryAtRest
    /\ ChatAtRest
    /\ ConcAtRest
    /\ EmbAtRest /\ max_retries = 0
    /\ MemAtRest /\ memory_limit \in 1..MaxLimit

\* The calls of two callers on two sessions, every call reading a later time
\* than the calls before it: which session a store call touches does not
\* depend on created_at.
ConcNext ==
    \/ \E p \in Callers : \E s \in Sessions : conc_store_chat_turn(p, s, FALSE)
    \/ \E p \in Callers : conc_insert(p)
    \/ \E p \in Callers : conc_select(p)
    \/ \E p \in Callers : conc_delete(p)
    \/ \E p \in Callers : \E s \in Sessions : conc_get_chat_memory(p, s)
    \/ \E p \in Callers : \E s \in Sessions : conc_clear_session_memory(p, s)

SpecConc == ConcInit /\ [][ConcNext]_vars

\* The store_chat_turn calls of two callers, whose clock readings may agree.
TieNext ==
    \/ \E p \in Callers : \E s \in Sessions : \E tied \in BOOLEAN :
          conc_store_chat_turn(p, s, tied)
    \/ \E p \in Callers : conc_insert(p)
    \/ \E p \in Callers : conc_select(p)
    \/ \E p \in Callers : conc_delete(p)

SpecTie == ConcInit /\ [][TieNext]_vars

ConcTypeOK ==
    /\ \A p \in Callers : p_pc[p] \in {"idle", "insert", "select", "delete"}
    /\ \A p \in Callers : p_call[p].status \in {"none", "running", "returned", "raised"}
    /\ clock \in 0..MaxConcTurns
    /\ \A r \in chat_histories : r.session_id \in Sessions /\ r.created_at \in 1..clock
    /\ p_tied \subseteq 2..clock


\* ------------------------------------------------- claims about two callers
\* The caller took a step of a call.
Stepped(p) == p_call'[p] # p_call[p] \/ p_pc'[p] # p_pc[p] \/ p_sel'[p] # p_sel[p]

\* The rows of the sessions other than s.
ForeignRows(rows, s) == {r \in rows : r.session_id # s}

\* C35: a step of store_chat_turn, _cleanup_old_messages or
\* clear_session_memory for a session leaves the rows of every other
\* session as they are, and get_chat_memory and the select of
\* _cleanup_old_messages of a session read rows of that session only,
\* however the calls of the two callers interleave.
C35_SessionIsolation ==
    [][\A p \in Callers :
          (Stepped(p) /\ ~Stepped(Other(p))) =>
              LET s == p_call'[p].session_id
              IN  /\ ForeignRows(chat_histories', s) = ForeignRows(chat_histories, s)
                  /\ \A r \in chat_histories' \ chat_histories : r.session_id = s
                  /\ p_call'[p].sessions \subseteq {s}]_vars

\* A cleanup that deleted rows of one session while a store_chat_turn of the
\* other caller is running on the other session, whose rows are there.
C35_Witness ==
    \E p \in Callers :
        /\ p_call[p].op = "store_chat_turn"
        /\ p_call[p].cleanup = "deleted"
        /\ p_pc[Other(p)] # "idle"
        /\ p_call[Other(p)].op = "store_chat_turn"
        /\ p_call[Other(p)].session_id # p_call[p].session_id
        /\ ForeignRows(chat_histories, p_call[p].session_id) # {}

\* The store_chat_turn calls of the two callers, for the same session, ran at
\* the same time, with no third call, and have both returned.
BothReturned ==
    /\ \A p \in Callers :
          /\ p_pc[p] = "idle"
          /\ p_call[p].op = "store_chat_turn"
          /\ p_call[p].status = "returned"
          /\ p_call[p].overlap = {p_call[Other(p)].turn}
    /\ p_call[1].session_id = p_call[2].session_id

\* The turns of the session that have a row stored.
StoredTurns(rows, s) == {r.content : r \in SessionRows(rows, s)}

\* C36: after two interleaved store_chat_turn calls for one session have
\* returned, the session holds both new turns if memory_limit >= 2, holds at
\* most memory_limit turns, and no deleted turn is newer than a kept one.
C36_ConcurrentWriters ==
    BothReturned =>
        LET s == p_call[1].session_id
            kept == StoredTurns(chat_histories, s)
        IN  /\ memory_limit >= 2 =>
                  Stamped(TurnRows(s, {p_call[1].turn, p_call[2].turn}))
                      \subseteq chat_histories
            /\ Cardinality(kept) <= memory_limit
            /\ \A d \in m_turns[s] \ kept : \A k \in kept : StampOf(d) <= StampOf(k)

====
